---- MODULE Spec2Model ----
(***************************************************************************)
(* Model of the FCP analytics dashboard (Application-FCP).                 *)
(*                                                                         *)
(* The repository is a set of Streamlit page scripts.  Its parts are       *)
(* modelled here, each with its own specification over the shared          *)
(* variables (the variables of the other parts stay parked):               *)
(*   SpecLoad  the data loaders (utils.load_data and the pages' copies)    *)
(*   SpecUI    the sidebar of pages/1_Valeurs_Liquidatives.py: the         *)
(*             session state, the keyed widgets and the buttons, one       *)
(*             action per user event followed by the script run(s)         *)
(*   SpecDD    calculate_max_drawdown and analyze_drawdowns                *)
(*   SpecNorm  normalize_7d_risk_profile                                   *)
(*   SpecScore the global score and its classification                     *)
(*   SpecFlows the net flows of 2_Souscriptions_Rachats.py                 *)
(*   SpecRisk  calculate_risk_metrics: VaR and CVaR                        *)
(*   SpecRegimes, SpecTransitions, SpecRegimeTab                           *)
(*             analyze_volatility_regimes and the regime tab               *)
(*   SpecFrames the frames a run of the Valeurs Liquidatives page          *)
(*             derives from the loaded dataset                             *)
(*   SpecSession the session state shared by the pages                     *)
(***************************************************************************)
EXTENDS Integers, Sequences, FiniteSets, TLC

VARIABLES
    table,        \* SpecLoad: the 'Date' column of the input file, one raw cell per row
    hasDate,      \* SpecLoad: whether the input file has a 'Date' column
    frame,        \* SpecLoad: the returned DataFrame, a sequence of rows [idx, Date]
    loadOp,       \* SpecLoad: the loader that produced frame ("none" before the call)
    keyIdentity,  \* SpecUI: the installed Streamlit identifies a keyed widget by its key alone
    ss,           \* SpecUI: st.session_state (the vl_* keys written by the page)
    widgets,      \* SpecUI: the state Streamlit keeps for the keyed widgets
    run,          \* SpecUI: the locals of the last script run (selected_fcps, sliders)
    last,         \* SpecUI: the user event that caused the last run, with the state before it
    prices,       \* SpecDD: the price series handed to the drawdown functions
    ddOut,        \* SpecDD: what the called function returned
    profiles,     \* SpecNorm: profiles_dict, fund -> dimension -> raw value
    normalized,   \* SpecNorm: the dict returned by normalize_7d_risk_profile
    risk_profile, \* SpecScore: the normalized profile of the fund, dimension -> score
    shown,        \* SpecScore: what the page and the narrative made of its global score
    sheet,        \* SpecFlows: the frame load_souscriptions_rachats_data returned
    flowsPage,    \* SpecFlows: the locals of the page run (df, df_filtered, the KPIs)
    returns,      \* SpecRisk: the series of returns of the fund, in percent
    riskOut,      \* SpecRisk: the VaR and CVaR calculate_risk_metrics returned
    rolling_vol,  \* SpecRegimes: rolling_vol_clean, the rolling volatility of the fund
    n_clusters,   \* SpecRegimes: the number of regimes asked for
    regimes,      \* SpecRegimes: what analyze_volatility_regimes returned
    regime_series, \* SpecTransitions: labeled_clusters, the regime of each observation
    tab,          \* SpecTransitions: what the executive summary of the regime tab showed
    loaded,       \* SpecFrames: the dataset load_data read
    frames,       \* SpecFrames: the store of the frames alive in the run
    vl,           \* SpecFrames: the names and widgets of the Valeurs Liquidatives page
    page,         \* SpecSession: the page the browser shows
    session_state \* SpecSession: st.session_state, shared by the pages

loadVars == <<table, hasDate, frame, loadOp>>
uiVars   == <<keyIdentity, ss, widgets, run, last>>
ddVars   == <<prices, ddOut>>
normVars == <<profiles, normalized>>
scoreVars == <<risk_profile, shown>>
baseVars == <<loadVars, uiVars, ddVars, normVars>>
flowVars == <<sheet, flowsPage>>
riskVars == <<returns, riskOut>>
regimeVars == <<rolling_vol, n_clusters, regimes>>
regimeTabVars == <<regime_series, tab>>
frameVars == <<loaded, frames, vl>>
sessionVars == <<page, session_state>>
moreVars == <<scoreVars, flowVars, riskVars, regimeVars, regimeTabVars, frameVars, sessionVars>>
vars     == <<baseVars, moreVars>>

(***************************************************************************)
(* Bounds of the model.                                                    *)
(***************************************************************************)
MaxRows == 4        \* rows of the input file
MaxDay == 2         \* distinct calendar days in the input file

(***************************************************************************)
(* Generic helpers.                                                        *)
(***************************************************************************)
Range(s) == {s[i] : i \in DOMAIN s}

SeqsUpTo(S, n) == UNION {[1..k -> S] : k \in 0..n}

Perms(n) == {p \in [1..n -> 1..n] : \A i, j \in 1..n : p[i] = p[j] => i = j}

\* Op applied to the values of its operands: each operand is evaluated once,
\* before the call, as Python evaluates the arguments of a call
Call1(Op(_), a) == CHOOSE r \in {Op(x) : x \in {a}} : TRUE
Call2(Op(_, _), a, b) == CHOOSE r \in {Op(x, y) : x \in {a}, y \in {b}} : TRUE

\* a series given by a rule, as the sequence of its values
Series(s) == SubSeq(s, 1, Len(s))

(***************************************************************************)
(* PART 1 - loading.  A raw cell of the Date column is 0 for text that is  *)
(* not a date and d in 1..MaxDay for the text of day d.                    *)
(***************************************************************************)
RawCells == 0..MaxDay

NaT == [nat |-> TRUE, day |-> 0]

\* pd.to_datetime(df['Date'], errors='coerce') on one cell: unparseable -> NaT
ToDatetime(cell) == IF cell = 0 THEN NaT ELSE [nat |-> FALSE, day |-> cell]

\* pd.read_csv / pd.read_excel: the rows in file order, with the default RangeIndex
ReadFile(cells) == [i \in DOMAIN cells |-> [idx |-> i - 1, Date |-> cells[i]]]

\* df['Date'] = pd.to_datetime(df['Date'], errors='coerce')
CoerceDates(df) == [i \in DOMAIN df |-> [idx |-> df[i].idx, Date |-> ToDatetime(df[i].Date)]]

\* the order sort_values sorts by: ascending, NaT last (na_position='last')
DateLeq(a, b) == b.nat \/ (~a.nat /\ a.day <= b.day)

\* a mutant of SortValues: the frame is returned in file order
SortValuesUnsorted(df) == {df}

\* df.sort_values('Date'): the default quicksort is not stable, so any ordering
\* of the rows by Date is a possible result; the index travels with the row
SortValues(df) ==
    {[i \in DOMAIN df |-> df[p[i]]] : p \in
        {q \in Perms(Len(df)) :
            \A i, j \in DOMAIN df : i < j => DateLeq(df[q[i]].Date, df[q[j]].Date)}}

InitLoad ==
    /\ table \in SeqsUpTo(RawCells, MaxRows)
    /\ hasDate \in BOOLEAN
    /\ frame = <<>>
    /\ loadOp = "none"

\* utils.load_data: a table without a Date column is returned as read
load_data ==
    /\ loadOp = "none"
    /\ IF hasDate
         THEN frame' \in SortValues(CoerceDates(ReadFile(table)))
         ELSE frame' = ReadFile(table)
    /\ loadOp' = "utils.load_data"
    /\ UNCHANGED <<table, hasDate>>

\* pages/1_Valeurs_Liquidatives.load_data: df['Date'] raises KeyError without the column
vl_load_data ==
    /\ loadOp = "none"
    /\ IF hasDate
         THEN /\ frame' \in SortValues(CoerceDates(ReadFile(table)))
              /\ loadOp' = "vl.load_data"
         ELSE /\ frame' = <<>>
              /\ loadOp' = "KeyError"
    /\ UNCHANGED <<table, hasDate>>

\* pages/3_Actifs_Nets.load_actifs_nets_data: the same steps on the 'Actifs Nets' sheet
load_actifs_nets_data ==
    /\ loadOp = "none"
    /\ IF hasDate
         THEN /\ frame' \in SortValues(CoerceDates(ReadFile(table)))
              /\ loadOp' = "load_actifs_nets_data"
         ELSE /\ frame' = <<>>
              /\ loadOp' = "KeyError"
    /\ UNCHANGED <<table, hasDate>>

Loaded == loadOp \in {"utils.load_data", "vl.load_data", "load_actifs_nets_data"}

ParkedLoad == table = <<>> /\ hasDate = TRUE /\ frame = <<>> /\ loadOp = "none"

(***************************************************************************)
(* Floating point.  pandas computes on IEEE binary floats; the model keeps *)
(* the format (binary mantissa, round to nearest, ties to even, NaN) with  *)
(* a mantissa of MantBits bits instead of the 53 of a double (an odd       *)
(* width, as 53 is) and no exponent limits.  A float is the exact rational *)
(* <<n, d>> it stands for, in lowest terms with d > 0; NaN is <<0, 0>>.    *)
(***************************************************************************)
MantBits == 7

NaN == <<0, 0>>
IsNaN(x) == x[2] = 0

Abs(k) == IF k < 0 THEN -k ELSE k

RECURSIVE GCD(_, _)
GCD(a, b) == IF b = 0 THEN a ELSE GCD(b, a % b)

RECURSIVE Pow2(_)
Pow2(k) == IF k <= 0 THEN 1 ELSE 2 * Pow2(k - 1)

\* the rational n/d (d # 0) in lowest terms with a positive denominator
Rat(n, d) ==
    LET g == GCD(Abs(n), Abs(d))
        s == IF d < 0 THEN -1 ELSE 1
    IN  <<(s * n) \div g, (s * d) \div g>>

\* the binary exponent e of n/d > 0: 2^(MantBits-1) <= (n/d) / 2^e < 2^MantBits
RECURSIVE Exponent(_, _, _)
Exponent(n, d, e) ==
    LET num == IF e < 0 THEN n * Pow2(-e) ELSE n
        den == IF e > 0 THEN d * Pow2(e) ELSE d
    IN  IF num >= den * Pow2(MantBits) THEN Exponent(n, d, e + 1)
        ELSE IF num < den * Pow2(MantBits - 1) THEN Exponent(n, d, e - 1)
        ELSE e

\* n/d > 0 with binary exponent e, rounded to MantBits significant bits, ties to even
RoundAt(n, d, e) ==
    LET num  == IF e < 0 THEN n * Pow2(-e) ELSE n
        den  == IF e > 0 THEN d * Pow2(e) ELSE d
        q    == num \div den
        r2   == 2 * (num % den)
        mant == IF r2 > den \/ (r2 = den /\ q % 2 = 1) THEN q + 1 ELSE q
    IN  IF e >= 0 THEN Rat(mant * Pow2(e), 1) ELSE Rat(mant, Pow2(-e))
RoundPos(n, d) == Call1(LAMBDA e : RoundAt(n, d, e), Exponent(n, d, 0))

\* the float nearest to the rational n/d
Nearest(n, d) ==
    IF n = 0 THEN <<0, 1>>
    ELSE IF (n < 0) = (d < 0) THEN RoundPos(Abs(n) \div GCD(Abs(n), Abs(d)),
                                            Abs(d) \div GCD(Abs(n), Abs(d)))
    ELSE Call1(LAMBDA m : <<-m[1], m[2]>>,
               RoundPos(Abs(n) \div GCD(Abs(n), Abs(d)), Abs(d) \div GCD(Abs(n), Abs(d))))
Fl(n, d) == Call2(Nearest, n, d)

Sum(x, y) == IF IsNaN(x) \/ IsNaN(y) THEN NaN ELSE Fl(x[1] * y[2] + y[1] * x[2], x[2] * y[2])
Difference(x, y) == IF IsNaN(x) \/ IsNaN(y) THEN NaN ELSE Fl(x[1] * y[2] - y[1] * x[2], x[2] * y[2])
Product(x, y) == IF IsNaN(x) \/ IsNaN(y) THEN NaN ELSE Fl(x[1] * y[1], x[2] * y[2])
\* x / y; the callers divide by positive values only
Quotient(x, y) == IF IsNaN(x) \/ IsNaN(y) \/ y[1] = 0 THEN NaN ELSE Fl(x[1] * y[2], x[2] * y[1])

\* the float operations +, -, *, /
FAdd(x, y) == Call2(Sum, x, y)
FSub(x, y) == Call2(Difference, x, y)
FMul(x, y) == Call2(Product, x, y)
FDiv(x, y) == Call2(Quotient, x, y)

\* comparisons; every comparison with NaN is False
FLt(x, y) == ~IsNaN(x) /\ ~IsNaN(y) /\ x[1] * y[2] < y[1] * x[2]
FLe(x, y) == ~IsNaN(x) /\ ~IsNaN(y) /\ x[1] * y[2] <= y[1] * x[2]
FEq(x, y) == ~IsNaN(x) /\ ~IsNaN(y) /\ x[1] * y[2] = y[1] * x[2]

F(k) == Fl(k, 1)

\* Series.min() / Series.max(): NaN entries are skipped, NaN when none is left
RECURSIVE FMinOf(_, _)
FMinOf(s, acc) ==
    IF s = <<>> THEN acc
    ELSE FMinOf(Tail(s), IF IsNaN(Head(s)) THEN acc
                         ELSE IF IsNaN(acc) \/ FLt(Head(s), acc) THEN Head(s) ELSE acc)
SeriesMin(s) == FMinOf(s, NaN)

RECURSIVE FMaxOf(_, _)
FMaxOf(s, acc) ==
    IF s = <<>> THEN acc
    ELSE FMaxOf(Tail(s), IF IsNaN(Head(s)) THEN acc
                         ELSE IF IsNaN(acc) \/ FLt(acc, Head(s)) THEN Head(s) ELSE acc)
SeriesMax(s) == FMaxOf(s, NaN)

(***************************************************************************)
(* PART 3 - drawdowns.  A price series is a sequence of floats; sequence   *)
(* position i is the pandas index i - 1 (df.reset_index(drop=True)).       *)
(***************************************************************************)
MaxLen == 4         \* observations in a price series
MaxPrice == 3       \* prices are the floats 1.0 .. MaxPrice

PriceSeries(ps) == Series([i \in DOMAIN ps |-> F(ps[i])])

\* Series.pct_change(): NaN at the first position, then p[t] / p[t-1] - 1
PctChange(p) ==
    Series([i \in DOMAIN p |-> IF i = 1 THEN NaN ELSE FSub(FDiv(p[i], p[i - 1]), F(1))])

\* Series.fillna(0)
FillNa0(s) == Series([i \in DOMAIN s |-> IF IsNaN(s[i]) THEN F(0) ELSE s[i]])

\* 1 + series
OnePlus(s) == Series([i \in DOMAIN s |-> FAdd(F(1), s[i])])

\* one step of Series.cumprod(): a NaN entry is skipped by the running product
\* (skipna=True)
CumProdStep(prev, x) ==
    IF IsNaN(x) THEN prev ELSE IF IsNaN(prev) THEN x ELSE FMul(prev, x)

RECURSIVE CumProdTo(_, _)
CumProdTo(s, i) == IF i = 0 THEN NaN ELSE Call2(CumProdStep, CumProdTo(s, i - 1), s[i])

\* Series.cumprod(): the running product, left to right; a NaN entry stays NaN
CumProd(s) == Series([i \in DOMAIN s |-> IF IsNaN(s[i]) THEN NaN ELSE CumProdTo(s, i)])

\* Series.expanding().max(): maximum of the valid values so far (min_periods=1)
ExpandingMax(s) == Series([i \in DOMAIN s |-> SeriesMax(SubSeq(s, 1, i))])

\* (cumulative - running_max) / running_max * 100
DrawdownSeries(cumulative, running_max) ==
    Series([i \in DOMAIN cumulative |->
        FMul(FDiv(FSub(cumulative[i], running_max[i]), running_max[i]), F(100))])

\* running_max and drawdown from the cumulative series
DrawdownFrom(cumulative) == Call2(DrawdownSeries, cumulative, ExpandingMax(cumulative))

\* utils.calculate_max_drawdown
calculate_max_drawdown(p) ==
    IF Len(p) = 0 THEN F(0)
    ELSE LET cumulative_returns == Call1(CumProd, Call1(OnePlus, Call1(PctChange, p)))
             drawdown == Call1(DrawdownFrom, cumulative_returns)
         IN  SeriesMin(drawdown)

\* the recovery threshold of analyze_drawdowns, the float written -0.01
RecoveryThreshold == Fl(-1, 100)

\* the drawdown series of analyze_drawdowns (pct_change().fillna(0))
AnalyzeDrawdownSeries(p) ==
    LET cumulative == Call1(CumProd, Call1(OnePlus, Call1(FillNa0, Call1(PctChange, p))))
    IN  Call1(DrawdownFrom, cumulative)

\* in_drawdown = drawdown < 0
InDrawdown(dd, i) == FLt(dd[i], F(0))

\* the episodes: the maximal runs of consecutive positions in drawdown
\* (starts = in_drawdown.ne(in_drawdown.shift()).cumsum(), one id per run)
EpisodeRuns(dd) ==
    {<<a, b>> \in (DOMAIN dd) \X (DOMAIN dd) :
        /\ a <= b
        /\ \A k \in a..b : InDrawdown(dd, k)
        /\ (a = 1 \/ ~InDrawdown(dd, a - 1))
        /\ (b = Len(dd) \/ ~InDrawdown(dd, b + 1))}

\* recovery_idx: the first position after the episode with drawdown >= -0.01,
\* as a pandas index; -1 stands for None
RecoveryIdx(dd, b) ==
    LET recovery_points == {k \in (b + 1)..Len(dd) : FLe(RecoveryThreshold, dd[k])}
    IN  IF b < Len(dd) /\ recovery_points # {}
          THEN (CHOOSE k \in recovery_points : \A m \in recovery_points : k <= m) - 1
          ELSE -1

\* one entry of drawdown_episodes (indices are pandas indices, from 0)
Episode(dd, a, b) ==
    LET recovery_idx == RecoveryIdx(dd, b)
        end_idx == b - 1
    IN  [start_idx |-> a - 1,
         end_idx |-> end_idx,
         recovery_idx |-> recovery_idx,
         depth |-> SeriesMin(SubSeq(dd, a, b)),
         duration |-> b - a + 1,
         recovery_time |-> IF recovery_idx # -1 THEN recovery_idx - end_idx ELSE -1]

\* the episodes and the global metrics from the drawdown series
DrawdownMetrics(drawdown) ==
    [drawdown_series |-> drawdown,
     drawdown_episodes |-> {Episode(drawdown, r[1], r[2]) : r \in EpisodeRuns(drawdown)},
     max_drawdown |-> SeriesMin(drawdown)]

\* pages/1_Valeurs_Liquidatives.analyze_drawdowns
analyze_drawdowns(p) == Call1(DrawdownMetrics, AnalyzeDrawdownSeries(p))

NoDrawdownResult == [fn |-> "none", max_drawdown |-> NaN, drawdown_series |-> <<>>,
                     drawdown_episodes |-> {}]

InitDD ==
    /\ prices \in SeqsUpTo(1..MaxPrice, MaxLen)
    /\ ddOut = NoDrawdownResult

CallCalculateMaxDrawdown ==
    /\ ddOut.fn = "none"
    /\ ddOut' = [NoDrawdownResult EXCEPT
                    !.fn = "calculate_max_drawdown",
                    !.max_drawdown = calculate_max_drawdown(PriceSeries(prices))]
    /\ UNCHANGED prices

\* analyze_drawdowns reads prices.iloc[0] and prices.iloc[-1]: an empty series raises
CallAnalyzeDrawdowns ==
    /\ ddOut.fn = "none"
    /\ Len(prices) > 0
    /\ ddOut' = [fn |-> "analyze_drawdowns"] @@ analyze_drawdowns(PriceSeries(prices))
    /\ UNCHANGED prices

ParkedDD == prices = <<>> /\ ddOut = NoDrawdownResult

(***************************************************************************)
(* PART 2 - the sidebar of pages/1_Valeurs_Liquidatives.py.                *)
(*                                                                         *)
(* Streamlit reruns main() from the top on every user event.  A widget     *)
(* created with key=... keeps its value between runs.  Which widget the    *)
(* value belongs to depends on the installed Streamlit, which the          *)
(* repository does not pin: releases that identify a widget by its key     *)
(* and its parameters treat a call with another default/value parameter    *)
(* as a new widget, which starts from that default; releases that          *)
(* identify a keyed widget by its key alone keep the stored value and      *)
(* ignore the default of later runs.  keyIdentity is chosen once, at       *)
(* Init, and never changes.                                                *)
(*                                                                         *)
(* A selection is modelled as the set of its FCPs (the order in which the  *)
(* user picked them is not kept).  The name typed in the text input is 0   *)
(* for the empty text and 1..NumNames otherwise.                           *)
(***************************************************************************)
NumFcps == 2        \* FCP columns of the data file
NumNames == 1       \* distinct names the user types for saved selections
SliderReach == 1    \* slider positions on each side of the default the user reaches

DefaultVolatilityWindow == 30
DefaultRollingRiskWindow == 60
DefaultNClusters == 3
VolSliderMin == 5
VolSliderMax == 120
VolSliderStep == 5
RiskSliderMin == 20
RiskSliderMax == 180
RiskSliderStep == 10
ClustersSliderMin == 2
ClustersSliderMax == 5

\* fcp_cols = [col for col in df.columns if col != 'Date']
fcp_cols == 1..NumFcps

Names == 1..NumNames

SliderPositions(lo, hi, step, default) ==
    {v \in lo..hi : (v - lo) % step = 0 /\ Abs(v - default) <= step * SliderReach}

VolChoices == SliderPositions(VolSliderMin, VolSliderMax, VolSliderStep, DefaultVolatilityWindow)
RiskChoices == SliderPositions(RiskSliderMin, RiskSliderMax, RiskSliderStep, DefaultRollingRiskWindow)
ClusterChoices == SliderPositions(ClustersSliderMin, ClustersSliderMax, 1, DefaultNClusters)

\* A keyed widget call (st.multiselect(default=..., key=...), st.slider(value=...,
\* key=...)) during a run.  w is the stored widget: the default it was created
\* with and its current value, which is what the call returns.
KeyedWidget(default, w) ==
    IF keyIdentity \/ w.ident = default
      THEN w
      ELSE [ident |-> default, value |-> default]

\* a mutant of AnalysedFcps: the fallback to all FCPs is missing
AnalysedFcpsNoFallback(selected_fcps) == selected_fcps

\* if not selected_fcps: selected_fcps = fcp_cols
AnalysedFcps(selected_fcps) == IF selected_fcps = {} THEN fcp_cols ELSE selected_fcps

\* dict with one more key / one key less
DictSet(d, k, v) == [x \in DOMAIN d \cup {k} |-> IF x = k THEN v ELSE d[x]]
DictDel(d, k) == [x \in DOMAIN d \ {k} |-> d[x]]

\* One run of main() down to the end of the sidebar.  s is the session state and
\* w the widget state at the start of the run, button the button whose press
\* caused the run ("none" for any other event), name the text input's value (for
\* the save button) or the selectbox's value (for load and delete).
\* rerun is TRUE when the run ended in st.rerun().
Script(s, w, button, name) ==
    LET ms       == KeyedWidget(s.vl_selected_fcps, w.vl_multiselect)
        vol      == KeyedWidget(s.vl_volatility_window, w.vl_vol_slider)
        risk     == KeyedWidget(s.vl_rolling_risk_window, w.vl_risk_slider)
        clusters == KeyedWidget(s.vl_n_clusters, w.vl_clusters_slider)
        w1 == [vl_multiselect |-> ms, vl_vol_slider |-> vol,
               vl_risk_slider |-> risk, vl_clusters_slider |-> clusters]
        s1 == [s EXCEPT !.vl_selected_fcps = ms.value,
                        !.vl_volatility_window = vol.value,
                        !.vl_rolling_risk_window = risk.value,
                        !.vl_n_clusters = clusters.value]
        locals == [multiselect |-> ms.value,
                   selected_fcps |-> AnalysedFcps(ms.value),
                   volatility_window |-> vol.value,
                   rolling_risk_window |-> risk.value,
                   n_clusters |-> clusters.value]
        saved == s1.vl_saved_selections
    IN  CASE button = "reset_volatility" ->
               [ss |-> [s1 EXCEPT !.vl_volatility_window = DefaultVolatilityWindow,
                                  !.vl_rolling_risk_window = DefaultRollingRiskWindow,
                                  !.vl_n_clusters = DefaultNClusters],
                widgets |-> w1, run |-> locals, rerun |-> TRUE]
          [] button = "save" /\ name # 0 ->
               [ss |-> [s1 EXCEPT !.vl_saved_selections =
                                      DictSet(saved, name, s1.vl_selected_fcps)],
                widgets |-> w1, run |-> locals, rerun |-> FALSE]
          [] button = "load" /\ name # 0 ->
               [ss |-> [s1 EXCEPT !.vl_selected_fcps = saved[name]],
                widgets |-> w1, run |-> locals, rerun |-> TRUE]
          [] button = "delete" /\ name # 0 ->
               [ss |-> [s1 EXCEPT !.vl_saved_selections = DictDel(saved, name)],
                widgets |-> w1, run |-> locals, rerun |-> TRUE]
          [] button = "reset_filters" ->
               [ss |-> [s1 EXCEPT !.vl_selected_fcps = {}],
                widgets |-> w1, run |-> locals, rerun |-> TRUE]
          [] OTHER ->
               [ss |-> s1, widgets |-> w1, run |-> locals, rerun |-> FALSE]

\* The runs one user event causes: the run with the event and, when that run
\* ends in st.rerun(), the run that follows it.
Runs(s, w, button, name) ==
    LET first == Script(s, w, button, name)
    IN  IF first.rerun THEN Script(first.ss, first.widgets, "none", 0) ELSE first

Event(w, button, name, what) ==
    LET out == Runs(ss, w, button, name)
    IN  /\ ss' = out.ss
        /\ widgets' = out.widgets
        /\ run' = out.run
        /\ last' = [event |-> what, name |-> name]
        /\ UNCHANGED keyIdentity

\* the session after the first run of main(): every key at its default
InitUI ==
    /\ keyIdentity \in BOOLEAN
    /\ ss = [vl_selected_fcps |-> {},
             vl_volatility_window |-> DefaultVolatilityWindow,
             vl_rolling_risk_window |-> DefaultRollingRiskWindow,
             vl_n_clusters |-> DefaultNClusters,
             vl_saved_selections |-> <<>>]
    /\ widgets = [vl_multiselect |-> [ident |-> {}, value |-> {}],
                  vl_vol_slider |-> [ident |-> DefaultVolatilityWindow,
                                     value |-> DefaultVolatilityWindow],
                  vl_risk_slider |-> [ident |-> DefaultRollingRiskWindow,
                                      value |-> DefaultRollingRiskWindow],
                  vl_clusters_slider |-> [ident |-> DefaultNClusters,
                                          value |-> DefaultNClusters]]
    /\ run = [multiselect |-> {}, selected_fcps |-> fcp_cols,
              volatility_window |-> DefaultVolatilityWindow,
              rolling_risk_window |-> DefaultRollingRiskWindow,
              n_clusters |-> DefaultNClusters]
    /\ last = [event |-> "open", name |-> 0]

\* the user changes the multiselect to another selection
SelectFcps ==
    \E sel \in SUBSET fcp_cols :
        /\ sel # widgets.vl_multiselect.value
        /\ Event([widgets EXCEPT !.vl_multiselect.value = sel], "none", 0, "select")

\* the user moves one of the three sliders
MoveSlider ==
    \/ \E v \in VolChoices :
        /\ v # widgets.vl_vol_slider.value
        /\ Event([widgets EXCEPT !.vl_vol_slider.value = v], "none", 0, "slide")
    \/ \E v \in RiskChoices :
        /\ v # widgets.vl_risk_slider.value
        /\ Event([widgets EXCEPT !.vl_risk_slider.value = v], "none", 0, "slide")
    \/ \E v \in ClusterChoices :
        /\ v # widgets.vl_clusters_slider.value
        /\ Event([widgets EXCEPT !.vl_clusters_slider.value = v], "none", 0, "slide")

\* any other event that reruns the script: typing the name, the period radio,
\* choosing an entry of the 'Charger une selection' selectbox
OtherInteraction == Event(widgets, "none", 0, "other")

\* the button 'Sauvegarder la selection actuelle' with the text input holding name
PressSave == \E name \in {0} \cup Names : Event(widgets, "save", name, "save")

\* the button 'Charger': it exists once a selection is saved; the selectbox holds
\* "" (0) or one of the saved names
PressLoad ==
    /\ DOMAIN ss.vl_saved_selections # {}
    /\ \E name \in {0} \cup DOMAIN ss.vl_saved_selections :
           Event(widgets, "load", name, "load")

\* the button 'Supprimer'
PressDelete ==
    /\ DOMAIN ss.vl_saved_selections # {}
    /\ \E name \in {0} \cup DOMAIN ss.vl_saved_selections :
           Event(widgets, "delete", name, "delete")

\* the button 'Reinitialiser aux valeurs par defaut'
PressResetVolatility == Event(widgets, "reset_volatility", 0, "reset_volatility")

\* the button 'Reinitialiser tous les filtres'
PressResetFilters == Event(widgets, "reset_filters", 0, "reset_filters")

ParkedUI ==
    /\ keyIdentity = FALSE
    /\ ss = <<>>
    /\ widgets = <<>>
    /\ run = <<>>
    /\ last = <<>>

(***************************************************************************)
(* PART 4 - normalize_7d_risk_profile.  profiles_dict maps each compared   *)
(* fund to its seven raw values.  The model draws one dimension (focus)    *)
(* whose raw values are free over the funds; the other six dimensions      *)
(* have the same raw value for every fund.                                 *)
(***************************************************************************)
MaxFunds == 2       \* funds compared
RawMax == 3         \* raw values are the floats -RawMax .. RawMax

SKEWNESS_SCALE_FACTOR == 25
SKEWNESS_NEUTRAL_SCORE == 50

Dimensions == {"Stabilite", "Resilience", "Recuperation", "Protection Extreme",
               "Asymetrie", "Sharpe Stable", "Pain Ratio"}

\* inverse_dimensions: less is better
inverse_dimensions == {"Stabilite", "Resilience", "Recuperation", "Protection Extreme",
                       "Sharpe Stable"}

\* the raw values calculate_7d_risk_profile can produce: a standard deviation, an
\* absolute value (>= 0), a mean recovery time (>= 1), or a signed quantity
RawDomain(dimension) ==
    CASE dimension \in {"Asymetrie", "Pain Ratio"} -> (-RawMax)..RawMax
      [] dimension = "Recuperation" -> 1..RawMax
      [] OTHER -> 0..RawMax

FMin2(x, y) == IF FLt(y, x) THEN y ELSE x
FMax2(x, y) == IF FLt(x, y) THEN y ELSE x

\* a mutant of SkewnessScore: the transformation is not clamped
SkewnessScoreUnclamped(value) ==
    FAdd(F(SKEWNESS_NEUTRAL_SCORE), FMul(value, F(SKEWNESS_SCALE_FACTOR)))

\* the special treatment of 'Asymetrie'
SkewnessScore(value) ==
    IF FLe(F(0), value)
      THEN FAdd(F(SKEWNESS_NEUTRAL_SCORE),
                FMin2(FMul(value, F(SKEWNESS_SCALE_FACTOR)), F(SKEWNESS_NEUTRAL_SCORE)))
      ELSE FAdd(F(SKEWNESS_NEUTRAL_SCORE),
                FMax2(FMul(value, F(SKEWNESS_SCALE_FACTOR)), F(-SKEWNESS_NEUTRAL_SCORE)))

\* a mutant of MinMaxScore: the inversion of the less-is-better dimensions is missing
MinMaxScoreNotInverted(dimension, value, min_val, max_val) ==
    IF FLt(min_val, max_val)
      THEN FMul(FDiv(FSub(value, min_val), FSub(max_val, min_val)), F(100))
      ELSE F(50)

\* ((value - min_val) / (max_val - min_val)) * 100, 50 when all are equal,
\* then 100 - norm_value for the inverse dimensions
MinMaxScore(dimension, value, min_val, max_val) ==
    LET norm_value == IF FLt(min_val, max_val)
                        THEN FMul(FDiv(FSub(value, min_val), FSub(max_val, min_val)), F(100))
                        ELSE F(50)
    IN  IF dimension \in inverse_dimensions THEN FSub(F(100), norm_value) ELSE norm_value

\* normalize_7d_risk_profile
normalize_7d_risk_profile(profiles_dict) ==
    [fcp_name \in DOMAIN profiles_dict |->
        [dimension \in DOMAIN profiles_dict[fcp_name] |->
            LET value == profiles_dict[fcp_name][dimension]
                all_values == {profiles_dict[f][dimension] : f \in DOMAIN profiles_dict}
                min_val == CHOOSE v \in all_values : \A u \in all_values : FLe(v, u)
                max_val == CHOOSE v \in all_values : \A u \in all_values : FLe(u, v)
            IN  IF dimension = "Asymetrie"
                  THEN SkewnessScore(value)
                  ELSE MinMaxScore(dimension, value, min_val, max_val)]]

NotNormalized == [returned |-> FALSE, value |-> <<>>]

\* the raw value of the dimensions that are not the focus
RestingRaw(dimension) == IF dimension = "Recuperation" THEN 1 ELSE 0

InitNorm ==
    /\ \E n \in 0..MaxFunds, focus \in Dimensions :
         \E col \in [1..n -> RawDomain(focus)] :
            profiles = [f \in 1..n |->
                          [d \in Dimensions |->
                              F(IF d = focus THEN col[f] ELSE RestingRaw(d))]]
    /\ normalized = NotNormalized

\* the call normalize_7d_risk_profile(profiles_dict) with at least one fund
CallNormalize ==
    /\ ~normalized.returned
    /\ profiles # <<>>
    /\ normalized' = [returned |-> TRUE, value |-> normalize_7d_risk_profile(profiles)]
    /\ UNCHANGED profiles

\* if not profiles_dict: return {}
CallNormalizeEmpty ==
    /\ ~normalized.returned
    /\ profiles = <<>>
    /\ normalized' = [returned |-> TRUE, value |-> <<>>]
    /\ UNCHANGED profiles

ParkedNorm == profiles = <<>> /\ normalized = NotNormalized

(***************************************************************************)
(* PART 5 - the global score and its level.  The page shows the level of   *)
(* the main fund's global score; generate_llm_style_narrative chooses the  *)
(* quality, the opening, the allocation recommendation and the synthesis   *)
(* from the score of the profile it is given.                              *)
(***************************************************************************)

\* the keys of a profile in the order calculate_7d_risk_profile builds the dict
DimensionOrder == <<"Stabilite", "Resilience", "Recuperation", "Protection Extreme",
                    "Asymetrie", "Sharpe Stable", "Pain Ratio">>

\* the normalized scores drawn for a profile: whole numbers of [0, 100], and NaN
\* (a raw value that is NaN, e.g. the rolling Sharpe of a short history, stays
\* NaN through the normalisation)
ScoreGrid == {F(0), F(50), F(70), F(100), NaN}

\* the exact sum of the first k values of the profile, NaN if one of them is NaN
RECURSIVE SumTo(_, _)
SumTo(profile, k) ==
    IF k = 0 THEN <<0, 1>>
    ELSE LET head == SumTo(profile, k - 1)
             x    == profile[DimensionOrder[k]]
         IN  IF IsNaN(head) \/ IsNaN(x) THEN NaN
             ELSE Rat(head[1] * x[2] + x[1] * head[2], head[2] * x[2])

\* np.mean(list(profile.values())): the sum of the values divided by their
\* number.  The values drawn are whole numbers, whose sums a double holds
\* exactly; the quotient is kept exact as well: rounding it to a double is
\* monotone and leaves 70 and 50 (doubles themselves) in place, and no
\* quotient of a whole number by 7 is within a rounding error of them, so
\* every comparison below has the outcome it has on doubles.
np_mean(profile) ==
    LET total == SumTo(profile, Len(DimensionOrder))
    IN  IF IsNaN(total) THEN NaN ELSE Rat(total[1], total[2] * Len(DimensionOrder))

\* a mutant of risk_level: the top threshold is exclusive
risk_level_exclusive(global_score) ==
    IF FLt(F(70), global_score) THEN "Excellent"
    ELSE IF FLe(F(50), global_score) THEN "Bon"
    ELSE "A Surveiller"

\* the page: if global_score >= 70 ... elif global_score >= 50 ... else
risk_level(global_score) ==
    IF FLe(F(70), global_score) THEN "Excellent"
    ELSE IF FLe(F(50), global_score) THEN "Bon"
    ELSE "A Surveiller"

\* generate_llm_style_narrative: the four choices made from score_global
quality(score_global) ==
    IF FLe(F(70), score_global) THEN "excellent"
    ELSE IF FLe(F(50), score_global) THEN "satisfaisant"
    ELSE "preoccupant"

opening(score_global) ==
    IF FLe(F(70), score_global) THEN "gestion rigoureuse"
    ELSE IF FLe(F(50), score_global) THEN "equilibre raisonnable"
    ELSE "vigilance accrue"

recommendation(score_global) ==
    IF FLe(F(70), score_global) THEN "allocation significative"
    ELSE IF FLe(F(50), score_global) THEN "allocation moderee"
    ELSE "allocation limitee et tactique"

final_synthesis(score_global) ==
    IF FLe(F(70), score_global) THEN "qualite superieure"
    ELSE IF FLe(F(50), score_global) THEN "profil acceptable"
    ELSE "evaluation approfondie"

NothingShown == [page |-> <<>>, narrative |-> <<>>]

InitScore ==
    /\ risk_profile \in [Dimensions -> ScoreGrid]
    /\ shown = NothingShown

\* the 'Score Global' box of the Risk Fingerprint tab
ShowGlobalScore ==
    /\ shown.page = <<>>
    /\ LET global_score == np_mean(risk_profile)
       IN  shown' = [shown EXCEPT !.page =
                        [global_score |-> global_score,
                         risk_level |-> risk_level(global_score)]]
    /\ UNCHANGED risk_profile

\* the call generate_llm_style_narrative(fcp_name, risk_profile, ...)
generate_llm_style_narrative ==
    /\ shown.narrative = <<>>
    /\ LET score_global == np_mean(risk_profile)
       IN  shown' = [shown EXCEPT !.narrative =
                        [score_global |-> score_global,
                         quality |-> quality(score_global),
                         opening |-> opening(score_global),
                         recommendation |-> recommendation(score_global),
                         final_synthesis |-> final_synthesis(score_global)]]
    /\ UNCHANGED risk_profile

ParkedScore == risk_profile = <<>> /\ shown = NothingShown

(***************************************************************************)
(* PART 6 - net flows (2_Souscriptions_Rachats.py).  A flow record is a    *)
(* row of the sheet 'Souscriptions Rachats': its fund, its operation, its  *)
(* client type and its amount, a whole number of FCFA.  The rows are kept  *)
(* in the order of the frame.                                              *)
(***************************************************************************)
MaxFlows == 2       \* rows of the sheet
MaxAmount == 2      \* amounts are 1 .. MaxAmount

FlowFcps == {"FCP A", "FCP B"}
\* the operations of the data, and one value that is neither of them
Operations == {"Souscriptions", "Rachats", "Transferts"}
ClientTypes == {"Particuliers", "Institutionnels"}

FlowRecords ==
    [FCP : FlowFcps, Operations : Operations, TypeClients : ClientTypes, Montant : 1..MaxAmount]

\* a mutant of Montant_Signe: every amount counts as a subscription
Montant_SigneUnsigned(x) == x.Montant

\* lambda x: x['Montant'] if x['Operations'] == 'Souscriptions' else -x['Montant']
Montant_Signe(x) == IF x.Operations = "Souscriptions" THEN x.Montant ELSE -x.Montant

\* df_copy with the new column
WithSignedAmount(df) ==
    [i \in DOMAIN df |->
        [FCP |-> df[i].FCP, Operations |-> df[i].Operations,
         TypeClients |-> df[i].TypeClients, Montant |-> df[i].Montant,
         Montant_Signe |-> Montant_Signe(df[i])]]

\* df[mask]: the rows that satisfy the mask, in order
Rows(df, Mask(_)) == SelectSeq(df, Mask)

\* df[column].sum()
RECURSIVE ColumnSum(_, _)
ColumnSum(df, column) ==
    IF df = <<>> THEN 0 ELSE df[1][column] + ColumnSum(Tail(df), column)

\* df[df['Operations'] == operation]['Montant'].sum()
TotalOf(df, operation) ==
    ColumnSum(Rows(df, LAMBDA x : x.Operations = operation), "Montant")

\* sous - rach, the KPI 'Flux Net' and its per-fund and per-client versions
flux_net(df) == TotalOf(df, "Souscriptions") - TotalOf(df, "Rachats")

NoFlows == [df |-> <<>>, df_filtered |-> <<>>, kpi |-> <<>>]

InitFlows ==
    /\ sheet \in UNION {[1..n -> FlowRecords] : n \in 1..MaxFlows}
    /\ flowsPage = NoFlows

\* df = calculate_net_flows(df): the sheet itself is left as it was
calculate_net_flows ==
    /\ flowsPage.df = <<>>
    /\ flowsPage' = [flowsPage EXCEPT !.df = WithSignedAmount(sheet)]
    /\ UNCHANGED sheet

\* the operation and client-type filters of the sidebar (all funds are kept)
FilterFlows ==
    /\ flowsPage.df # <<>>
    /\ flowsPage.df_filtered = <<>>
    /\ \E selected_operations \in SUBSET Operations,
          selected_client_types \in SUBSET ClientTypes :
           LET df_filtered == Rows(flowsPage.df,
                                   LAMBDA x : /\ x.Operations \in selected_operations
                                              /\ x.TypeClients \in selected_client_types)
           IN  /\ df_filtered # <<>>        \* if df_filtered.empty: return
               /\ flowsPage' = [flowsPage EXCEPT !.df_filtered = df_filtered]
    /\ UNCHANGED sheet

\* the KPI card, the net flows by fund and the net flows by client type
ShowNetFlows ==
    /\ flowsPage.df_filtered # <<>>
    /\ flowsPage.kpi = <<>>
    /\ LET df == flowsPage.df_filtered
           OfFcp(f) == Rows(df, LAMBDA x : x.FCP = f)
           OfClient(c) == Rows(df, LAMBDA x : x.TypeClients = c)
       IN  flowsPage' = [flowsPage EXCEPT !.kpi =
               [flux_net |-> flux_net(df),
                total_flux |-> ColumnSum(df, "Montant_Signe"),
                fcp_flux_net |-> [f \in FlowFcps |-> flux_net(OfFcp(f))],
                df_net_fcp |-> [f \in FlowFcps |-> ColumnSum(OfFcp(f), "Montant_Signe")],
                client_flux_net |-> [c \in ClientTypes |-> flux_net(OfClient(c))],
                flux_ct |-> [c \in ClientTypes |-> ColumnSum(OfClient(c), "Montant_Signe")]]]
    /\ UNCHANGED sheet

ParkedFlows == sheet = <<>> /\ flowsPage = NoFlows

(***************************************************************************)
(* PART 7 - VaR and CVaR in calculate_risk_metrics.  The series of returns *)
(* (pct_change().dropna() * 100, no NaN left) is the input; its values are *)
(* floats, here multiples of 5.625 %: a step whose triple is not a float   *)
(* of the model, as the triple of most doubles is not a double.            *)
(***************************************************************************)
MaxObs == 3         \* returns in the series
MaxReturn == 2      \* returns are -MaxReturn .. MaxReturn steps

ReturnGrid == {Fl(45 * k, 8) : k \in (-MaxReturn)..MaxReturn}

\* the values of a series in increasing order
SortedValues(s) ==
    CHOOSE t \in {[i \in DOMAIN s |-> s[p[i]]] : p \in Perms(Len(s))} :
        \A i, j \in DOMAIN s : i < j => FLe(t[i], t[j])

\* numpy's linear interpolation between a and b at t in [0, 1)
Lerp(a, b, t) ==
    IF FLe(Fl(1, 2), t) THEN FSub(b, FMul(FSub(b, a), FSub(F(1), t)))
    ELSE FAdd(a, FMul(FSub(b, a), t))

\* np.percentile(returns, 5): the value at the position 0.05 * (n - 1) of the
\* sorted returns, interpolated linearly between its two neighbours
Percentile5(s) ==
    LET a       == SortedValues(s)
        n       == Len(s)
        below   == ((n - 1) \div 20) + 1
        above   == IF below < n THEN below + 1 ELSE n
        gamma   == Fl((n - 1) % 20, 20)
    IN  Call2(LAMBDA lo, hi : Lerp(lo, hi, gamma), a[below], a[above])

\* a mutant of ReturnsAtMost: the returns strictly below the VaR
ReturnsBelow(s, var) == SelectSeq(s, LAMBDA x : FLt(x, var))

\* returns[returns <= var_95]
ReturnsAtMost(s, var) == SelectSeq(s, LAMBDA x : FLe(x, var))

\* the running sum of a series, left to right
RECURSIVE SeriesSum(_, _)
SeriesSum(s, k) == IF k = 0 THEN F(0) ELSE Call2(FAdd, SeriesSum(s, k - 1), s[k])

\* Series.mean(): the sum divided by the count, NaN for an empty series
SeriesMean(s) == IF s = <<>> THEN NaN ELSE FDiv(SeriesSum(s, Len(s)), F(Len(s)))

NoRiskMetrics == [called |-> FALSE]

InitRisk ==
    /\ returns \in UNION {[1..n -> ReturnGrid] : n \in 1..MaxObs}
    /\ riskOut = NoRiskMetrics

\* the VaR and CVaR lines of calculate_risk_metrics(df, fcp_name)
calculate_risk_metrics ==
    /\ ~riskOut.called
    /\ LET var_95 == Percentile5(returns)
       IN  riskOut' = [called |-> TRUE,
                       var_95 |-> var_95,
                       cvar_95 |-> SeriesMean(ReturnsAtMost(returns, var_95))]
    /\ UNCHANGED returns

ParkedRisk == returns = <<>> /\ riskOut = NoRiskMetrics

(***************************************************************************)
(* PART 8 - analyze_volatility_regimes.  The input is rolling_vol_clean,   *)
(* the rolling volatility of the fund without its NaN head, in whole       *)
(* steps.  KMeans is the library's: the model takes any centres and the    *)
(* labels fit_predict gives with them, each observation in the cluster of  *)
(* a nearest centre (the first of them when several are as near).          *)
(***************************************************************************)
MaxPoints == 4      \* observations of the rolling volatility
MaxVol == 2         \* volatilities and centres are 0 .. MaxVol
MaxClusters == 3    \* n_clusters is ClustersSliderMin .. MaxClusters

\* the cluster of x: the index of the first centre at the least distance
NearestCentre(x, centers) ==
    CHOOSE c \in DOMAIN centers :
        /\ \A d \in DOMAIN centers : Abs(x - centers[c]) <= Abs(x - centers[d])
        /\ \A d \in DOMAIN centers : Abs(x - centers[d]) = Abs(x - centers[c]) => c <= d

\* kmeans.fit_predict(X) for the centres the fit ended with
fit_predict(X, centers) == [t \in DOMAIN X |-> NearestCentre(X[t], centers)]

\* the results np.argsort(centers) can give: the cluster indices in an order
\* of non-decreasing centres (equal centres in any order)
ArgSorts(centers) ==
    {order \in [DOMAIN centers -> DOMAIN centers] :
        /\ \A i, j \in DOMAIN centers : order[i] = order[j] => i = j
        /\ \A i, j \in DOMAIN centers : i < j => centers[order[i]] <= centers[order[j]]}

\* a mutant of regime_mapping: the clusters keep the labels KMeans gave them
regime_mapping_identity(cluster_order) == [c \in DOMAIN cluster_order |-> c]

\* regime_mapping = {cluster_order[i]: i for i in range(n_clusters)}
regime_mapping(cluster_order) ==
    [c \in DOMAIN cluster_order |-> CHOOSE i \in DOMAIN cluster_order : cluster_order[i] = c]

\* regime_names for the number of clusters
regime_names(n) ==
    CASE n = 2 -> [i \in 0..1 |-> <<"Faible Volatilite", "Forte Volatilite">>[i + 1]]
      [] n = 3 -> [i \in 0..2 |-> <<"Faible Volatilite", "Volatilite Intermediaire",
                                    "Forte Volatilite">>[i + 1]]
      [] n = 4 -> [i \in 0..3 |-> <<"Tres Faible Volatilite", "Faible Volatilite",
                                    "Volatilite Elevee", "Tres Forte Volatilite">>[i + 1]]
      [] n = 5 -> [i \in 0..4 |-> <<"Tres Faible Volatilite", "Faible Volatilite",
                                    "Volatilite Moderee", "Volatilite Elevee",
                                    "Tres Forte Volatilite">>[i + 1]]
      [] OTHER -> [i \in 0..(n - 1) |-> <<"Regime", i + 1>>]

\* transitions after the first k turns of the loop: turn i adds 1 to the
\* entry [labeled_clusters[i], labeled_clusters[i + 1]] (i counted from 1 here)
RECURSIVE TransitionsAfter(_, _, _)
TransitionsAfter(labeled_clusters, n, k) ==
    IF k <= 0 THEN [i \in 0..(n - 1) |-> [j \in 0..(n - 1) |-> 0]]
    ELSE LET before      == TransitionsAfter(labeled_clusters, n, k - 1)
             from_regime == labeled_clusters[k]
             to_regime   == labeled_clusters[k + 1]
         IN  [before EXCEPT ![from_regime][to_regime] = @ + 1]

\* a mutant of TransitionCounts: the loop stops one pair early
TransitionCountsShort(labeled_clusters, n) ==
    TransitionsAfter(labeled_clusters, n, Len(labeled_clusters) - 2)

\* for i in range(len(labeled_clusters) - 1): transitions[from, to] += 1
TransitionCounts(labeled_clusters, n) ==
    TransitionsAfter(labeled_clusters, n, Len(labeled_clusters) - 1)

\* transitions.sum(axis=1): the counts are whole numbers, their sum is exact
RECURSIVE RowSum(_, _)
RowSum(row, j) == IF j < 0 THEN 0 ELSE row[j] + RowSum(row, j - 1)

\* np.nan_to_num(transitions / transitions.sum(axis=1, keepdims=True)):
\* 0 / 0 is NaN, replaced by 0
TransitionProbs(transitions, n) ==
    [i \in 0..(n - 1) |-> [j \in 0..(n - 1) |->
        LET p == FDiv(F(transitions[i][j]), F(RowSum(transitions[i], n - 1)))
        IN  IF IsNaN(p) THEN F(0) ELSE p]]

NoRegimes == [called |-> FALSE]

\* what analyze_volatility_regimes returns for the labels of the observations
RegimeAnalysis(labeled_clusters, n) ==
    [called |-> TRUE,
     Regime |-> labeled_clusters,
     regime_names |-> regime_names(n),
     transitions |-> TransitionCounts(labeled_clusters, n),
     transition_probs |-> TransitionProbs(TransitionCounts(labeled_clusters, n), n),
     current_regime |-> labeled_clusters[Len(labeled_clusters)],
     current_regime_name |-> regime_names(n)[labeled_clusters[Len(labeled_clusters)]]]

InitRegimes ==
    /\ n_clusters \in ClustersSliderMin..MaxClusters
    /\ rolling_vol \in UNION {[1..k -> 0..MaxVol] : k \in n_clusters..MaxPoints}
    /\ regimes = NoRegimes

\* the call analyze_volatility_regimes(df, fcp_name, window, n_clusters)
analyze_volatility_regimes ==
    /\ ~regimes.called
    /\ \E centers \in [0..(n_clusters - 1) -> 0..MaxVol] :
       \E cluster_order \in ArgSorts(centers) :
           LET clusters == fit_predict(rolling_vol, centers)
               mapping  == regime_mapping(cluster_order)
               labeled_clusters == [t \in DOMAIN clusters |-> mapping[clusters[t]]]
           IN  regimes' = [kmeans |-> [centers |-> centers, clusters |-> clusters,
                                       cluster_order |-> cluster_order,
                                       regime_mapping |-> mapping]]
                          @@ RegimeAnalysis(labeled_clusters, n_clusters)
    /\ UNCHANGED <<rolling_vol, n_clusters>>

ParkedRegimes == rolling_vol = <<>> /\ n_clusters = 0 /\ regimes = NoRegimes

(***************************************************************************)
(* PART 9 - the regimes of a longer history and the regime tab.  Here the  *)
(* labels of the observations (labeled_clusters, each in 0 .. n_clusters   *)
(* - 1 as the relabelling leaves them) are the input: the rest of          *)
(* analyze_volatility_regimes depends on the data through them only.       *)
(***************************************************************************)
MaxSteps == 8       \* labelled observations of a history
MaxTabSteps == 5    \* labelled observations behind the regime tab

NoTab == [rendered |-> "no"]

\* the labels of a history of up to MaxSteps observations in 2 regimes or in
\* the default 3; KMeans takes at least as many observations as clusters
InitTransitions ==
    /\ n_clusters \in ClustersSliderMin..DefaultNClusters
    /\ regime_series \in UNION {[1..k -> 0..(n_clusters - 1)] : k \in n_clusters..MaxSteps}
    /\ rolling_vol = <<>>
    /\ regimes = NoRegimes
    /\ tab = NoTab

\* the labels of a short history in any number of regimes the slider allows
InitRegimeTab ==
    /\ n_clusters \in ClustersSliderMin..ClustersSliderMax
    /\ regime_series \in UNION {[1..k -> 0..(n_clusters - 1)] : k \in n_clusters..MaxTabSteps}
    /\ rolling_vol = <<>>
    /\ regimes = NoRegimes
    /\ tab = NoTab

\* analyze_volatility_regimes from the labels on: names, transitions, current regime
AnalyzeLabeledClusters ==
    /\ ~regimes.called
    /\ regime_series # <<>>
    /\ regimes' = RegimeAnalysis(regime_series, n_clusters)
    /\ UNCHANGED <<rolling_vol, n_clusters, regime_series, tab>>

\* regime_icon = {0: ..., 1: ..., 2: ...} and regime_color, with the same keys
regime_icon == [i \in 0..2 |-> <<"ok", "warning", "red">>[i + 1]]
regime_color == [i \in 0..2 |-> <<"#28a745", "#ffc107", "#dc3545">>[i + 1]]

\* the executive summary of the regime tab: a lookup with a missing key raises
\* KeyError and the run of the page stops there
ExecutiveSummary ==
    /\ regimes.called
    /\ tab = NoTab
    /\ LET current_regime == regimes.current_regime
       IN  IF current_regime \in DOMAIN regime_icon /\ current_regime \in DOMAIN regime_color
           THEN tab' = [rendered |-> "yes",
                        regime_icon |-> regime_icon[current_regime],
                        regime_color |-> regime_color[current_regime],
                        current_regime_name |-> regimes.current_regime_name,
                        signal_text |-> IF current_regime = 0 THEN "CONFORT"
                                        ELSE IF current_regime = n_clusters - 1
                                             THEN "VIGILANCE ELEVEE"
                                        ELSE "VIGILANCE MODEREE"]
           ELSE tab' = [rendered |-> "KeyError"]
    /\ UNCHANGED <<rolling_vol, n_clusters, regime_series, regimes>>

ParkedRegimeTab == regime_series = <<>> /\ tab = NoTab

(***************************************************************************)
(* PART 10 - the frames of the Valeurs Liquidatives page.  A DataFrame is  *)
(* an object: frames is the store of the frames alive in a run, a name of  *)
(* the page holds the position of its frame in the store, and two names   *)
(* holding the same position are the same frame.  frames[1] is the value   *)
(* st.cache_data keeps for load_data; the page works on one fund column.   *)
(***************************************************************************)
MaxQuotes == 3      \* rows of the dataset
MaxQuote == 2       \* net asset values are the floats 1.0 .. MaxQuote

QuoteDays == {1, 200, 350, 400}     \* the days quotes can be dated
VlPeriods == {"1M", "3M", "6M", "1A", "Tout"}
VlModes == {"Absolue", "Cumule (%)"}
CachedData == 1

\* what load_data returns: rows sorted by Date
Datasets ==
    {d \in UNION {[1..k -> [Date : QuoteDays, FCP : {F(q) : q \in 1..MaxQuote}]] : k \in 1..MaxQuotes} :
        \A i \in 1..(Len(d) - 1) : d[i].Date < d[i + 1].Date}

\* a mutant of FrameCopy: the selection is made in place and the name is an alias
FrameInPlace(store, src, rows) == [store |-> [store EXCEPT ![src] = rows], ref |-> src]

\* src[...].copy(): a new data holding the selected rows of src
FrameCopy(store, src, rows) == [store |-> Append(store, rows), ref |-> Len(store) + 1]

\* data[fcp] = values: the column of that data is overwritten
SetColumn(store, ref, values) ==
    [store EXCEPT ![ref] = [i \in DOMAIN @ |-> [@[i] EXCEPT !.FCP = values[i]]]]

DateMax(data) == CHOOSE d \in {data[i].Date : i \in DOMAIN data} :
                      \A i \in DOMAIN data : data[i].Date <= d
DateMin(data) == CHOOSE d \in {data[i].Date : i \in DOMAIN data} :
                      \A i \in DOMAIN data : d <= data[i].Date
DateFrom(data, start_date) == SelectSeq(data, LAMBDA r : r.Date >= start_date)
DateBetween(data, a, b) == SelectSeq(data, LAMBDA r : r.Date >= a /\ r.Date <= b)

\* ((a / b) - 1) * 100
PercentChange(a, b) == Call2(FMul, Call2(FSub, Call2(FDiv, a, b), F(1)), F(100))

RollingPeriods == ("1M" :> 30) @@ ("3M" :> 90) @@ ("6M" :> 180) @@ ("1Y" :> 365) @@ ("5Y" :> 1825)

calculate_rolling_performance(data) ==
    LET latest_date == DateMax(data)
        latest_value == DateBetween(data, latest_date, latest_date)[1].FCP
        OverPeriod(days) ==
            LET period_data == DateFrom(data, latest_date - days)
            IN  IF Len(period_data) > 0
                THEN PercentChange(latest_value, period_data[1].FCP)
                ELSE NaN
    IN  [label \in DOMAIN RollingPeriods |-> OverPeriod(RollingPeriods[label])]
        @@ ("Origine" :> PercentChange(latest_value, data[1].FCP))

\* the first day of the chart for a choice of vl_period
ChartStart(data, vl_period) ==
    LET max_date == DateMax(data)
    IN  CASE vl_period = "1M" -> max_date - 30
          [] vl_period = "3M" -> max_date - 90
          [] vl_period = "6M" -> max_date - 180
          [] vl_period = "1A" -> max_date - 365
          [] OTHER -> DateMin(data)

\* (column / column.iloc[0] - 1) * 100
Cumulative(data) == [i \in DOMAIN data |-> PercentChange(data[i].FCP, data[1].FCP)]

\* what the sidebar can give: a complete range or, while the user picks, its first day
DateRanges ==
    {<<a>> : a \in QuoteDays}
    \cup {r \in {<<a, b>> : a \in QuoteDays, b \in QuoteDays} : r[1] <= r[2]}

NoRun == [pc |-> "load", df |-> 0, filtered_df |-> 0, full_df |-> 0, vl_plot_df |-> 0,
          date_range |-> <<>>, vl_period |-> "Tout", vl_mode |-> "Absolue",
          rolling_data |-> [computed |-> FALSE]]

InitFrames ==
    /\ loaded \in Datasets
    /\ frames = <<loaded>>
    /\ vl = NoRun

\* df = load_data(): st.cache_data hands out a copy of the value it keeps
LoadData ==
    /\ vl.pc = "load"
    /\ LET r == FrameCopy(frames, CachedData, frames[CachedData])
       IN  /\ frames' = r.store
           /\ vl' = [vl EXCEPT !.pc = "filter", !.df = r.ref]
    /\ UNCHANGED loaded

\* the date filter of the sidebar: filtered_df and full_df
FilterByDate ==
    \E date_range \in DateRanges :
    /\ vl.pc = "filter"
    /\ LET df == frames[vl.df]
           f == IF Len(date_range) = 2
                THEN FrameCopy(frames, vl.df, DateBetween(df, date_range[1], date_range[2]))
                ELSE FrameCopy(frames, vl.df, df)
           g == FrameCopy(f.store, vl.df, f.store[vl.df])
       IN  /\ frames' = g.store
           /\ vl' = [vl EXCEPT !.pc = "performances", !.date_range = date_range,
                               !.filtered_df = f.ref, !.full_df = g.ref]
    /\ UNCHANGED loaded

\* the rolling performances of the performance tab, from full_df
RollingPerformances ==
    /\ vl.pc = "performances"
    /\ vl' = [vl EXCEPT !.pc = "chart",
                        !.rolling_data = [computed |-> TRUE,
                                          perf |-> calculate_rolling_performance(frames[vl.full_df])]]
    /\ UNCHANGED <<loaded, frames>>

\* the evolution chart: vl_plot_df for the period, rewritten in the mode Cumule (%)
EvolutionChart ==
    \E vl_period \in VlPeriods, vl_mode \in VlModes :
    /\ vl.pc = "chart"
    /\ LET full_df == frames[vl.full_df]
           p == FrameCopy(frames, vl.full_df, DateFrom(full_df, ChartStart(full_df, vl_period)))
       IN  /\ frames' = IF vl_mode = "Cumule (%)"
                        THEN SetColumn(p.store, p.ref, Cumulative(p.store[p.ref]))
                        ELSE p.store
           /\ vl' = [vl EXCEPT !.pc = "done", !.vl_period = vl_period, !.vl_mode = vl_mode,
                               !.vl_plot_df = p.ref]
    /\ UNCHANGED loaded

\* a widget changes and the script runs again: only the cached value outlives the run
Rerun ==
    /\ vl.pc = "done"
    /\ frames' = <<frames[CachedData]>>
    /\ vl' = NoRun
    /\ UNCHANGED loaded

ParkedFrames == loaded = <<>> /\ frames = <<>> /\ vl = NoRun

(***************************************************************************)
(* PART 11 - the session state the pages share.  st.session_state is one   *)
(* dict for the whole browser session: session_state maps the keys present *)
(* to their values, whichever page wrote them.  A widget created with      *)
(* key=... stores its value under that key.  An event on a page runs the   *)
(* script of that page from the top, a second time after st.rerun().       *)
(***************************************************************************)
VlPage == "pages/1_Valeurs_Liquidatives.py"
AnPage == "pages/3_Actifs_Nets.py"

\* the keys the save/load expander and the selectors of each page use
VlKeys == [selected |-> "vl_selected_fcps", saved |-> "vl_saved_selections",
           multiselect |-> "vl_multiselect"]
\* a mutant of AnKeys: the Actifs Nets page under the names of the other page
AnKeysOfOtherPage == [selected |-> "vl_selected_fcps", saved |-> "vl_saved_selections",
                      multiselect |-> "evolution_fcp_selector"]
AnKeys == [selected |-> "an_selected_fcps", saved |-> "an_saved_selections",
           multiselect |-> "evolution_fcp_selector"]

\* every key a page writes, by assignment or as the key of a widget
VlWrittenKeys ==
    {VlKeys.selected, VlKeys.saved, VlKeys.multiselect,
     "vl_volatility_window", "vl_rolling_risk_window", "vl_n_clusters",
     "vl_vol_slider", "vl_risk_slider", "vl_clusters_slider",
     "vl_reset_volatility_params", "vl_save_name", "valeurs_liquidatives_date_range",
     "advanced_risk_main_fcp", "regime_analysis_fcp"}
AnWrittenKeys ==
    {AnKeys.selected, AnKeys.saved, AnKeys.multiselect,
     "an_save_name", "an_save_btn", "an_load_select", "an_load_btn", "an_delete_btn",
     "actifs_nets_date_range", "select_all_evolution", "an_period_selector",
     "an_mode_selector", "tab1_fcp_selector", "tab1_compare_all", "tab2_hist_fcp",
     "tab2_flow_fcp", "vl_contrib_fcp"}

Has(s, k) == k \in DOMAIN s
SetDefault(s, k, v) == IF Has(s, k) THEN s ELSE DictSet(s, k, v)
Restricted(s, keys) == [k \in DOMAIN s \cap keys |-> s[k]]

\* what the user does on a page, one widget at a time: a selection picked in
\* the multiselect, or a button pressed with the name typed or picked before
PageEvents(buttons) ==
    [button : {"none"}, name : {0}, picked : {TRUE}, selection : SUBSET fcp_cols]
    \cup [button : buttons \cap {"save", "load", "delete"}, name : {0} \cup Names,
          picked : {FALSE}, selection : {{}}]
    \cup [button : buttons \ {"save", "load", "delete"}, name : {0},
          picked : {FALSE}, selection : {{}}]
NoEvent == [button |-> "none", name |-> 0, picked |-> FALSE, selection |-> {}]

\* one run of main() of the Valeurs Liquidatives page
VlScript(s, ev) ==
    LET s0 == SetDefault(s, VlKeys.selected, {})
        selected_fcps == IF ev.picked THEN ev.selection
                         ELSE IF Has(s0, VlKeys.multiselect) THEN s0[VlKeys.multiselect]
                         ELSE s0[VlKeys.selected]
        s1 == DictSet(DictSet(s0, VlKeys.multiselect, selected_fcps),
                      VlKeys.selected, selected_fcps)
        s2 == SetDefault(SetDefault(SetDefault(s1,
                  "vl_volatility_window", DefaultVolatilityWindow),
                  "vl_rolling_risk_window", DefaultRollingRiskWindow),
                  "vl_n_clusters", DefaultNClusters)
        saved == IF Has(s2, VlKeys.saved) THEN s2[VlKeys.saved] ELSE <<>>
    IN  CASE ev.button = "reset_volatility" ->
               [state |-> DictSet(DictSet(DictSet(s2,
                              "vl_volatility_window", DefaultVolatilityWindow),
                              "vl_rolling_risk_window", DefaultRollingRiskWindow),
                              "vl_n_clusters", DefaultNClusters),
                rerun |-> TRUE]
          [] ev.button = "save" /\ ev.name # 0 ->
               [state |-> DictSet(s2, VlKeys.saved, DictSet(saved, ev.name, s2[VlKeys.selected])),
                rerun |-> FALSE]
          [] ev.button = "load" /\ ev.name \in DOMAIN saved ->
               [state |-> DictSet(s2, VlKeys.selected, saved[ev.name]), rerun |-> TRUE]
          [] ev.button = "delete" /\ ev.name \in DOMAIN saved ->
               [state |-> DictSet(s2, VlKeys.saved, DictDel(saved, ev.name)), rerun |-> TRUE]
          [] ev.button = "reset_filters" ->
               [state |-> DictSet(s2, VlKeys.selected, {}), rerun |-> TRUE]
          [] OTHER -> [state |-> s2, rerun |-> FALSE]

\* one run of main() of the Actifs Nets page; assigned says whether Streamlit
\* accepts the assignment to the key of a widget the run has already created
AnScript(s, ev, assigned) ==
    LET selected_fcps == fcp_cols
        evolution == IF ev.picked THEN ev.selection
                     ELSE IF Has(s, AnKeys.multiselect) THEN s[AnKeys.multiselect]
                     ELSE fcp_cols
        saved == IF Has(s, AnKeys.saved) THEN s[AnKeys.saved] ELSE <<>>
        s1 == DictSet(s, AnKeys.multiselect, evolution)
    IN  CASE ev.button = "save" /\ ev.name # 0 ->
               [state |-> DictSet(s1, AnKeys.saved, DictSet(saved, ev.name, selected_fcps)),
                rerun |-> FALSE]
          [] ev.button = "load" /\ ev.name \in DOMAIN saved ->
               [state |-> DictSet(s, AnKeys.selected, saved[ev.name]), rerun |-> TRUE]
          [] ev.button = "delete" /\ ev.name \in DOMAIN saved ->
               [state |-> DictSet(s, AnKeys.saved, DictDel(saved, ev.name)), rerun |-> TRUE]
          [] ev.button = "select_all" ->
               IF assigned
               THEN [state |-> DictSet(s1, AnKeys.multiselect, fcp_cols), rerun |-> TRUE]
               ELSE [state |-> s1, rerun |-> FALSE]
          [] OTHER -> [state |-> s1, rerun |-> FALSE]

VlButtons == {"none", "save", "load", "delete", "reset_filters", "reset_volatility"}
AnButtons == {"none", "save", "load", "delete", "select_all"}

\* the browser session opens on one of the two pages, whose script has run once
InitSession ==
    /\ page \in {VlPage, AnPage}
    /\ session_state = IF page = VlPage THEN VlScript(<<>>, NoEvent).state
                       ELSE AnScript(<<>>, NoEvent, FALSE).state

\* an event on the Valeurs Liquidatives page and the runs it causes
VlEvent ==
    \E ev \in PageEvents(VlButtons) :
        /\ page = VlPage
        /\ LET first == VlScript(session_state, ev)
           IN  session_state' = IF first.rerun THEN VlScript(first.state, NoEvent).state
                                ELSE first.state
        /\ UNCHANGED page

\* an event on the Actifs Nets page and the runs it causes
AnEvent ==
    \E ev \in PageEvents(AnButtons), assigned \in BOOLEAN :
        /\ page = AnPage
        /\ LET first == AnScript(session_state, ev, assigned)
           IN  session_state' = IF first.rerun THEN AnScript(first.state, NoEvent, assigned).state
                                ELSE first.state
        /\ UNCHANGED page

\* the user opens the other page, whose script runs; Streamlit may drop the
\* value stored under the key of a widget of the page that is left
SwitchPage ==
    \E dropped \in BOOLEAN :
        LET left == IF page = VlPage THEN VlKeys.multiselect ELSE AnKeys.multiselect
            kept == IF dropped
                    THEN Restricted(session_state, DOMAIN session_state \ {left})
                    ELSE session_state
        IN  /\ page' = IF page = VlPage THEN AnPage ELSE VlPage
            /\ session_state' = IF page = VlPage
                                THEN AnScript(kept, NoEvent, FALSE).state
                                ELSE VlScript(kept, NoEvent).state

ParkedSession == page = "" /\ session_state = <<>>

(***************************************************************************)
(* The specifications.                                                     *)
(***************************************************************************)
ParkedBase == ParkedLoad /\ ParkedUI /\ ParkedDD /\ ParkedNorm
ParkedMore == ParkedScore /\ ParkedFlows /\ ParkedRisk /\ ParkedRegimes /\ ParkedRegimeTab /\ ParkedFrames /\ ParkedSession

NextLoad ==
    \/ load_data /\ UNCHANGED <<uiVars, ddVars, normVars, moreVars>>
    \/ vl_load_data /\ UNCHANGED <<uiVars, ddVars, normVars, moreVars>>
    \/ load_actifs_nets_data /\ UNCHANGED <<uiVars, ddVars, normVars, moreVars>>

StartLoad == InitLoad /\ ParkedUI /\ ParkedDD /\ ParkedNorm /\ ParkedMore
SpecLoad == StartLoad /\ [][NextLoad]_vars

NextUI ==
    \/ SelectFcps /\ UNCHANGED <<loadVars, ddVars, normVars, moreVars>>
    \/ OtherInteraction /\ UNCHANGED <<loadVars, ddVars, normVars, moreVars>>
    \/ PressSave /\ UNCHANGED <<loadVars, ddVars, normVars, moreVars>>
    \/ PressLoad /\ UNCHANGED <<loadVars, ddVars, normVars, moreVars>>
    \/ PressDelete /\ UNCHANGED <<loadVars, ddVars, normVars, moreVars>>
    \/ PressResetVolatility /\ UNCHANGED <<loadVars, ddVars, normVars, moreVars>>
    \/ PressResetFilters /\ UNCHANGED <<loadVars, ddVars, normVars, moreVars>>

StartUI == InitUI /\ ParkedLoad /\ ParkedDD /\ ParkedNorm /\ ParkedMore
SpecUI == StartUI /\ [][NextUI]_vars

NextVol ==
    \/ MoveSlider /\ UNCHANGED <<loadVars, ddVars, normVars, moreVars>>
    \/ OtherInteraction /\ UNCHANGED <<loadVars, ddVars, normVars, moreVars>>
    \/ PressResetVolatility /\ UNCHANGED <<loadVars, ddVars, normVars, moreVars>>

StartVol == InitUI /\ ParkedLoad /\ ParkedDD /\ ParkedNorm /\ ParkedMore
SpecVol == StartVol /\ [][NextVol]_vars

NextDD ==
    \/ CallCalculateMaxDrawdown /\ UNCHANGED <<loadVars, uiVars, normVars, moreVars>>
    \/ CallAnalyzeDrawdowns /\ UNCHANGED <<loadVars, uiVars, normVars, moreVars>>

StartDD == InitDD /\ ParkedLoad /\ ParkedUI /\ ParkedNorm /\ ParkedMore
SpecDD == StartDD /\ [][NextDD]_vars

NextNorm ==
    \/ CallNormalize /\ UNCHANGED <<loadVars, uiVars, ddVars, moreVars>>
    \/ CallNormalizeEmpty /\ UNCHANGED <<loadVars, uiVars, ddVars, moreVars>>

StartNorm == InitNorm /\ ParkedLoad /\ ParkedUI /\ ParkedDD /\ ParkedMore
SpecNorm == StartNorm /\ [][NextNorm]_vars

NextScore ==
    \/ ShowGlobalScore /\ UNCHANGED <<baseVars, flowVars, riskVars, regimeVars, regimeTabVars, frameVars, sessionVars>>
    \/ generate_llm_style_narrative /\ UNCHANGED <<baseVars, flowVars, riskVars, regimeVars, regimeTabVars, frameVars, sessionVars>>

StartScore == InitScore /\ ParkedBase /\ ParkedFlows /\ ParkedRisk /\ ParkedRegimes /\ ParkedRegimeTab /\ ParkedFrames /\ ParkedSession
SpecScore == StartScore /\ [][NextScore]_vars

NextFlows ==
    \/ calculate_net_flows /\ UNCHANGED <<baseVars, scoreVars, riskVars, regimeVars, regimeTabVars, frameVars, sessionVars>>
    \/ FilterFlows /\ UNCHANGED <<baseVars, scoreVars, riskVars, regimeVars, regimeTabVars, frameVars, sessionVars>>
    \/ ShowNetFlows /\ UNCHANGED <<baseVars, scoreVars, riskVars, regimeVars, regimeTabVars, frameVars, sessionVars>>

StartFlows == InitFlows /\ ParkedBase /\ ParkedScore /\ ParkedRisk /\ ParkedRegimes /\ ParkedRegimeTab /\ ParkedFrames /\ ParkedSession
SpecFlows == StartFlows /\ [][NextFlows]_vars

NextRisk ==
    \/ calculate_risk_metrics /\ UNCHANGED <<baseVars, scoreVars, flowVars, regimeVars, regimeTabVars, frameVars, sessionVars>>

StartRisk == InitRisk /\ ParkedBase /\ ParkedScore /\ ParkedFlows /\ ParkedRegimes /\ ParkedRegimeTab /\ ParkedFrames /\ ParkedSession
SpecRisk == StartRisk /\ [][NextRisk]_vars

NextRegimes ==
    \/ analyze_volatility_regimes /\ UNCHANGED <<baseVars, scoreVars, flowVars, riskVars, regimeTabVars, frameVars, sessionVars>>

StartRegimes == InitRegimes /\ ParkedBase /\ ParkedScore /\ ParkedFlows /\ ParkedRisk /\ ParkedRegimeTab /\ ParkedFrames /\ ParkedSession
SpecRegimes == StartRegimes /\ [][NextRegimes]_vars

NextTransitions ==
    \/ AnalyzeLabeledClusters /\ UNCHANGED <<baseVars, scoreVars, flowVars, riskVars, frameVars, sessionVars>>

StartTransitions == InitTransitions /\ ParkedBase /\ ParkedScore /\ ParkedFlows /\ ParkedRisk /\ ParkedFrames /\ ParkedSession
SpecTransitions == StartTransitions /\ [][NextTransitions]_vars

NextRegimeTab ==
    \/ AnalyzeLabeledClusters /\ UNCHANGED <<baseVars, scoreVars, flowVars, riskVars, frameVars, sessionVars>>
    \/ ExecutiveSummary /\ UNCHANGED <<baseVars, scoreVars, flowVars, riskVars, frameVars, sessionVars>>

StartRegimeTab == InitRegimeTab /\ ParkedBase /\ ParkedScore /\ ParkedFlows /\ ParkedRisk /\ ParkedFrames /\ ParkedSession
SpecRegimeTab == StartRegimeTab /\ [][NextRegimeTab]_vars

NextFrames ==
    \/ LoadData /\ UNCHANGED <<baseVars, scoreVars, flowVars, riskVars, regimeVars, regimeTabVars, sessionVars>>
    \/ FilterByDate /\ UNCHANGED <<baseVars, scoreVars, flowVars, riskVars, regimeVars, regimeTabVars, sessionVars>>
    \/ RollingPerformances /\ UNCHANGED <<baseVars, scoreVars, flowVars, riskVars, regimeVars, regimeTabVars, sessionVars>>
    \/ EvolutionChart /\ UNCHANGED <<baseVars, scoreVars, flowVars, riskVars, regimeVars, regimeTabVars, sessionVars>>
    \/ Rerun /\ UNCHANGED <<baseVars, scoreVars, flowVars, riskVars, regimeVars, regimeTabVars, sessionVars>>

StartFrames == InitFrames /\ ParkedBase /\ ParkedScore /\ ParkedFlows /\ ParkedRisk /\ ParkedRegimes /\ ParkedRegimeTab /\ ParkedSession
SpecFrames == StartFrames /\ [][NextFrames]_vars

NextSession ==
    \/ VlEvent /\ UNCHANGED <<baseVars, scoreVars, flowVars, riskVars, regimeVars, regimeTabVars, frameVars>>
    \/ AnEvent /\ UNCHANGED <<baseVars, scoreVars, flowVars, riskVars, regimeVars, regimeTabVars, frameVars>>
    \/ SwitchPage /\ UNCHANGED <<baseVars, scoreVars, flowVars, riskVars, regimeVars, regimeTabVars, frameVars>>

StartSession == InitSession /\ ParkedBase /\ ParkedScore /\ ParkedFlows /\ ParkedRisk /\ ParkedRegimes /\ ParkedRegimeTab /\ ParkedFrames
SpecSession == StartSession /\ [][NextSession]_vars

(***************************************************************************)
(* The claims.                                                             *)
(***************************************************************************)

\* C1: whatever the row order of the file, when the table has a 'Date' column
\* the rows of the frame a loader returns are in non-decreasing Date order (a
\* row with a valid date never comes after a row with a later date), and the
\* frame holds exactly the rows of the file: none added, none dropped, each
\* with its own date.
C1_LoadedFrameIsDateOrdered ==
    Loaded =>
        /\ Len(frame) = Len(table)
        /\ {frame[i].idx : i \in DOMAIN frame} = {k - 1 : k \in DOMAIN table}
        /\ hasDate =>
            /\ \A i \in DOMAIN frame : frame[i].Date = ToDatetime(table[frame[i].idx + 1])
            /\ \A i, j \in DOMAIN frame :
                   (i < j /\ ~frame[i].Date.nat /\ ~frame[j].Date.nat)
                       => frame[i].Date.day <= frame[j].Date.day

\* C1 witness: a file whose dates are out of order, with an unparseable cell, loaded
C1_Witness ==
    /\ Loaded
    /\ hasDate
    /\ \E i, j \in DOMAIN table : i < j /\ table[j] # 0 /\ table[i] > table[j]
    /\ \E i \in DOMAIN table : table[i] = 0

\* C2: in every run the analysed set of FCPs is the multiselect's selection
\* when that selection is not empty and the full list of FCP columns when it
\* is; so, after any sequence of selections, saves, loads and resets, the
\* analysed set is never empty.
C2_AnalysedSetNeverEmpty ==
    /\ run.multiselect = widgets.vl_multiselect.value
    /\ widgets.vl_multiselect.value # {} => run.selected_fcps = widgets.vl_multiselect.value
    /\ widgets.vl_multiselect.value = {} => run.selected_fcps = fcp_cols
    /\ run.selected_fcps # {}

\* C2 witness: an empty selection was saved and loaded over another one; all
\* the FCPs are analysed
C2_Witness ==
    /\ last.event = "load"
    /\ last.name # 0
    /\ ss.vl_saved_selections[last.name] = {}
    /\ widgets.vl_multiselect.value = {}
    /\ run.selected_fcps = fcp_cols

\* C3: after 'Charger' is pressed with the saved name N chosen, the selection
\* the multiselect shows and the analyses use in the rerun that follows is the
\* selection saved under N.
C3_LoadRestoresSelection ==
    (last.event = "load" /\ last.name # 0) =>
        /\ widgets.vl_multiselect.value = ss.vl_saved_selections[last.name]
        /\ ss.vl_selected_fcps = ss.vl_saved_selections[last.name]
        /\ run.selected_fcps = AnalysedFcps(ss.vl_saved_selections[last.name])

\* C3, the part of it the code keeps: the load restores the selection when the
\* installed Streamlit identifies the widget by its key and its parameters
C3_LoadRestoresUnderParameterIdentity == ~keyIdentity => C3_LoadRestoresSelection

\* C4: in the rerun that follows a press of 'Reinitialiser aux valeurs par
\* defaut' the volatility window is 30, the rolling-risk window 60 and the
\* number of regimes 3, in session state and in the values the analyses use.
C4_ResetRestoresVolatilityDefaults ==
    last.event = "reset_volatility" =>
        /\ ss.vl_volatility_window = DefaultVolatilityWindow
        /\ ss.vl_rolling_risk_window = DefaultRollingRiskWindow
        /\ ss.vl_n_clusters = DefaultNClusters
        /\ run.volatility_window = DefaultVolatilityWindow
        /\ run.rolling_risk_window = DefaultRollingRiskWindow
        /\ run.n_clusters = DefaultNClusters

\* C4, the part of it the code keeps
C4_ResetUnderParameterIdentity == ~keyIdentity => C4_ResetRestoresVolatilityDefaults

\* C5: in the rerun that follows a press of 'Reinitialiser tous les filtres'
\* vl_selected_fcps is the empty list and all the FCPs are analysed.
C5_ResetClearsSelection ==
    last.event = "reset_filters" =>
        /\ ss.vl_selected_fcps = {}
        /\ run.selected_fcps = fcp_cols

\* C5, the part of it the code keeps
C5_ResetUnderParameterIdentity == ~keyIdentity => C5_ResetClearsSelection

\* the exact value of min over t of (VL_t - Peak_t) / Peak_t * 100 with
\* Peak_t = max(VL_0 .. VL_t), as a rational
PeakTo(ps, t) == CHOOSE m \in {ps[k] : k \in 1..t} : \A k \in 1..t : ps[k] <= m
DocumentedDrawdown(ps, t) == Rat((ps[t] - PeakTo(ps, t)) * 100, PeakTo(ps, t))
DocumentedMaxDrawdown(ps) ==
    CHOOSE d \in {DocumentedDrawdown(ps, t) : t \in DOMAIN ps} :
        \A t \in DOMAIN ps : d[1] * DocumentedDrawdown(ps, t)[2]
                                <= DocumentedDrawdown(ps, t)[1] * d[2]

\* x is the value ref up to the rounding of the float arithmetic: within
\* 100 * 2^-(MantBits - 3) percentage points
WithinRounding(x, ref) ==
    /\ ~IsNaN(x)
    /\ Abs(x[1] * ref[2] - ref[1] * x[2]) * Pow2(MantBits - 3) <= 100 * x[2] * ref[2]

\* C6: for every non-empty series of positive prices calculate_max_drawdown
\* returns the minimum over t of (VL_t - Peak_t) / Peak_t * 100 with
\* Peak_t = max(VL_0 .. VL_t), the first price included among the peaks.
C6_MaxDrawdownCountsFirstPrice ==
    (ddOut.fn = "calculate_max_drawdown" /\ Len(prices) >= 1) =>
        WithinRounding(ddOut.max_drawdown, DocumentedMaxDrawdown(prices))

\* C7: in analyze_drawdowns every value of the drawdown series is <= 0, it is
\* exactly 0 at every index where the price equals the running maximum of the
\* prices so far (index 0 among them), and max_drawdown is the minimum of the
\* series, hence <= 0.
C7_DrawdownZeroAtEveryPeak ==
    ddOut.fn = "analyze_drawdowns" =>
        /\ \A i \in DOMAIN prices : FLe(ddOut.drawdown_series[i], F(0))
        /\ \A i \in DOMAIN prices :
               prices[i] = PeakTo(prices, i) => FEq(ddOut.drawdown_series[i], F(0))
        /\ \A i \in DOMAIN prices : FLe(ddOut.max_drawdown, ddOut.drawdown_series[i])
        /\ \E i \in DOMAIN prices : FEq(ddOut.max_drawdown, ddOut.drawdown_series[i])
        /\ FLe(ddOut.max_drawdown, F(0))

\* C7, the part of it the code keeps: every drawdown is <= 0, it is exactly 0
\* at index 0 and wherever the cumulative product is at its running maximum,
\* and max_drawdown is the minimum of the series
C7_DrawdownNeverPositive ==
    ddOut.fn = "analyze_drawdowns" =>
        /\ \A i \in DOMAIN prices : FLe(ddOut.drawdown_series[i], F(0))
        /\ FEq(ddOut.drawdown_series[1], F(0))
        /\ \A i \in DOMAIN prices : FLe(ddOut.max_drawdown, ddOut.drawdown_series[i])
        /\ \E i \in DOMAIN prices : FEq(ddOut.max_drawdown, ddOut.drawdown_series[i])

\* the position (pandas index) of the lowest drawdown of an episode
TroughIdx(dd, ep) ==
    (CHOOSE k \in (ep.start_idx + 1)..(ep.end_idx + 1) :
        /\ FEq(dd[k], ep.depth)
        /\ \A m \in (ep.start_idx + 1)..(ep.end_idx + 1) : FEq(dd[m], ep.depth) => k <= m) - 1

\* the first observation after the trough with the drawdown back within 0.01%
\* of the peak (pandas index)
BackAtPeakIdx(dd, trough) ==
    (CHOOSE k \in (trough + 2)..Len(dd) :
        /\ FLe(RecoveryThreshold, dd[k])
        /\ \A m \in (trough + 2)..Len(dd) : FLe(RecoveryThreshold, dd[m]) => k <= m) - 1

\* C8: for every episode analyze_drawdowns reports with a recovery,
\* recovery_time is the number of observations from the episode's lowest
\* drawdown point to the first later observation at which the drawdown is
\* back within 0.01% of the peak.
C8_RecoveryTimeFromTrough ==
    ddOut.fn = "analyze_drawdowns" =>
        \A ep \in ddOut.drawdown_episodes :
            ep.recovery_time # -1 =>
                ep.recovery_time =
                    BackAtPeakIdx(ddOut.drawdown_series, TroughIdx(ddOut.drawdown_series, ep))
                        - TroughIdx(ddOut.drawdown_series, ep)

\* C8, what the code computes instead: the recovery is counted from the last
\* observation of the episode, which the next observation always ends
C8_RecoveryTimeIsOne ==
    ddOut.fn = "analyze_drawdowns" =>
        \A ep \in ddOut.drawdown_episodes :
            ep.recovery_time # -1 =>
                /\ ep.recovery_time = 1
                /\ ep.recovery_idx = ep.end_idx + 1

InRange0To100(x) == FLe(F(0), x) /\ FLe(x, F(100))

\* C9: normalize_7d_risk_profile returns, for every fund and every one of the 7
\* dimensions, a score in the closed range [0, 100], for any non-empty set of
\* funds with finite raw values (one fund only, all funds equal on a
\* dimension, arbitrarily large positive or negative skewness).
C9_ScoresWithin0And100 ==
    normalized.returned =>
        /\ DOMAIN normalized.value = DOMAIN profiles
        /\ \A f \in DOMAIN normalized.value :
              /\ DOMAIN normalized.value[f] = Dimensions
              /\ \A d \in Dimensions : InRange0To100(normalized.value[f][d])

\* C9 witness: two funds whose skewness is beyond the clamp on either side
C9_Witness ==
    /\ normalized.returned
    /\ \E f, g \in DOMAIN profiles :
          /\ FLt(F(SKEWNESS_NEUTRAL_SCORE), FMul(profiles[f]["Asymetrie"], F(SKEWNESS_SCALE_FACTOR)))
          /\ FLt(FMul(profiles[g]["Asymetrie"], F(SKEWNESS_SCALE_FACTOR)), F(-SKEWNESS_NEUTRAL_SCORE))
          /\ FEq(normalized.value[f]["Asymetrie"], F(100))
          /\ FEq(normalized.value[g]["Asymetrie"], F(0))

\* fund f has the smallest / the largest raw value of dimension d, and the funds differ
Smallest(f, d) ==
    /\ \A g \in DOMAIN profiles : FLe(profiles[f][d], profiles[g][d])
    /\ \E g \in DOMAIN profiles : FLt(profiles[f][d], profiles[g][d])
Largest(f, d) ==
    /\ \A g \in DOMAIN profiles : FLe(profiles[g][d], profiles[f][d])
    /\ \E g \in DOMAIN profiles : FLt(profiles[g][d], profiles[f][d])

\* C10: a higher score means a better fund: on the five less-is-better
\* dimensions the fund with the smallest raw value gets 100 and the one with
\* the largest gets 0 when they differ; on Pain Ratio the largest raw value
\* gets 100 and the smallest 0; and a fund with larger skewness never gets a
\* lower Asymetrie score than a fund with smaller skewness.
C10_HigherScoreIsBetter ==
    normalized.returned =>
        \A f \in DOMAIN profiles :
            /\ \A d \in inverse_dimensions :
                  /\ Smallest(f, d) => FEq(normalized.value[f][d], F(100))
                  /\ Largest(f, d) => FEq(normalized.value[f][d], F(0))
            /\ Largest(f, "Pain Ratio") => FEq(normalized.value[f]["Pain Ratio"], F(100))
            /\ Smallest(f, "Pain Ratio") => FEq(normalized.value[f]["Pain Ratio"], F(0))
            /\ \A g \in DOMAIN profiles :
                  FLe(profiles[f]["Asymetrie"], profiles[g]["Asymetrie"])
                      => FLe(normalized.value[f]["Asymetrie"], normalized.value[g]["Asymetrie"])

\* C10 witness: two funds that differ in volatility, normalized
C10_Witness ==
    /\ normalized.returned
    /\ \E f, g \in DOMAIN profiles :
          /\ FLt(profiles[f]["Stabilite"], profiles[g]["Stabilite"])
          /\ FEq(normalized.value[f]["Stabilite"], F(100))
          /\ FEq(normalized.value[g]["Stabilite"], F(0))

\* the level (3 top, 2 middle, 1 bottom) of each label the code chooses
LevelOf(label) ==
    CASE label \in {"Excellent", "excellent", "gestion rigoureuse",
                    "allocation significative", "qualite superieure"} -> 3
      [] label \in {"Bon", "satisfaisant", "equilibre raisonnable",
                    "allocation moderee", "profil acceptable"} -> 2
      [] label \in {"A Surveiller", "preoccupant", "vigilance accrue",
                    "allocation limitee et tactique", "evaluation approfondie"} -> 1

\* the level the fixed thresholds give a score: >= 70 top, 50 <= score < 70
\* middle, otherwise bottom
LevelByThresholds(score) ==
    IF FLe(F(70), score) THEN 3
    ELSE IF FLe(F(50), score) /\ FLt(score, F(70)) THEN 2
    ELSE 1

\* C11: the global score (the mean of the normalized dimensions) is put in
\* exactly one of three levels by fixed thresholds: top when score >= 70,
\* middle when 50 <= score < 70, bottom when score < 50; the level the page
\* shows and the quality, opening, recommendation and synthesis chosen by
\* generate_llm_style_narrative are the level of the thresholds, so for the
\* same score they never fall in different levels.
C11_OneLevelEverywhere ==
    /\ shown.page # <<>> =>
           LevelOf(shown.page.risk_level) = LevelByThresholds(shown.page.global_score)
    /\ shown.narrative # <<>> =>
           \A choice \in {"quality", "opening", "recommendation", "final_synthesis"} :
               LevelOf(shown.narrative[choice])
                   = LevelByThresholds(shown.narrative.score_global)
    /\ (shown.page # <<>> /\ shown.narrative # <<>>) =>
           /\ shown.page.global_score = shown.narrative.score_global
           /\ LevelOf(shown.page.risk_level) = LevelOf(shown.narrative.quality)

\* C11 witness: a profile whose mean is exactly 70 (not all scores equal), shown
\* as 'Excellent' by the page and called 'excellent' by the narrative
C11_Witness ==
    /\ shown.page # <<>> /\ shown.narrative # <<>>
    /\ \E d \in Dimensions : FEq(risk_profile[d], F(100))
    /\ FEq(shown.page.global_score, F(70))
    /\ shown.page.risk_level = "Excellent"
    /\ shown.narrative.quality = "excellent"
    /\ shown.narrative.recommendation = "allocation significative"

\* the rows of df_filtered, as a set of positions, whose operation is a
\* subscription or a redemption
OnlyFlows(df) == \A i \in DOMAIN df : df[i].Operations \in {"Souscriptions", "Rachats"}

RECURSIVE ExactSum(_)
ExactSum(s) ==
    IF s = <<>> THEN <<0, 1>>
    ELSE LET rest == ExactSum(Tail(s))
         IN  Rat(s[1][1] * rest[2] + rest[1] * s[1][2], s[1][2] * rest[2])
ExactMean(s) == Rat(ExactSum(s)[1], ExactSum(s)[2] * Len(s))

\* x is y up to the rounding of a float mean of k values no larger than bound
\* in absolute value: |x - y| <= k * 2^-(MantBits - 1) * bound
WithinMeanRounding(x, y, k, bound) ==
    Abs(x[1] * y[2] - y[1] * x[2]) * Pow2(MantBits - 1) * bound[2]
        <= k * Abs(bound[1]) * x[2] * y[2]

\* C13 (as stated): for every non-empty series of returns the CVaR 95% is
\* defined (at least one return is <= the VaR) and is less than or equal to
\* the VaR 95%.
C13_CVaRAtMostVaR ==
    riskOut.called =>
        /\ ~IsNaN(riskOut.cvar_95)
        /\ FLe(riskOut.cvar_95, riskOut.var_95)

\* C13 (amended): the CVaR 95% is defined, at least one return being <= the
\* VaR; the exact mean of the returns <= VaR is at most the VaR, and the CVaR
\* reported is that mean up to the rounding of the float mean; it is at most
\* the VaR whenever one or two returns are <= the VaR.
C13_CVaRAtMostVaRUpToRounding ==
    riskOut.called =>
        LET tail == ReturnsAtMost(returns, riskOut.var_95)
        IN  /\ tail # <<>>
            /\ ~IsNaN(riskOut.cvar_95)
            /\ FLe(ExactMean(tail), riskOut.var_95)
            /\ WithinMeanRounding(riskOut.cvar_95, ExactMean(tail), Len(tail),
                                  SeriesMax([i \in DOMAIN tail |->
                                                IF FLt(tail[i], F(0))
                                                THEN FSub(F(0), tail[i]) ELSE tail[i]]))
            /\ Len(tail) <= 2 => FLe(riskOut.cvar_95, riskOut.var_95)

\* C13 witness: returns that are not all equal, with a CVaR strictly below the VaR
C13_Witness ==
    /\ riskOut.called
    /\ Len(returns) = MaxObs
    /\ \E i, j \in DOMAIN returns : FLt(returns[i], returns[j])
    /\ FLt(riskOut.cvar_95, riskOut.var_95)
    /\ FLt(riskOut.var_95, F(0))

\* C14: analyze_volatility_regimes labels the regimes in increasing order of
\* volatility: the relabelling of the n_clusters clusters is a bijection onto
\* 0 .. n_clusters - 1 in which regime 0 is the cluster with the smallest
\* centre and regime n_clusters - 1 the cluster with the largest; for any two
\* observations in regimes a < b the rolling volatility of the first is not
\* greater than that of the second; current_regime is the regime of the last
\* observation.
C14_RegimesOrderedByVolatility ==
    regimes.called =>
        LET centers == regimes.kmeans.centers
            mapping == regimes.kmeans.regime_mapping
            Clusters == 0..(n_clusters - 1)
        IN  /\ DOMAIN mapping = Clusters
            /\ {mapping[c] : c \in Clusters} = Clusters
            /\ \A c, d \in Clusters : mapping[c] = mapping[d] => c = d
            /\ \A c, d \in Clusters : mapping[c] = 0 => centers[c] <= centers[d]
            /\ \A c, d \in Clusters : mapping[c] = n_clusters - 1 => centers[d] <= centers[c]
            /\ \A t \in DOMAIN rolling_vol :
                   regimes.Regime[t] = mapping[regimes.kmeans.clusters[t]]
            /\ \A s, t \in DOMAIN rolling_vol :
                   regimes.Regime[s] < regimes.Regime[t] => rolling_vol[s] <= rolling_vol[t]
            /\ regimes.current_regime = regimes.Regime[Len(rolling_vol)]

\* C14 witness: three clusters that KMeans numbered against the order of their
\* centres, all three with observations, the last observation in the top regime
C14_Witness ==
    /\ regimes.called
    /\ n_clusters = 3
    /\ {regimes.Regime[t] : t \in DOMAIN rolling_vol} = 0..2
    /\ regimes.kmeans.regime_mapping[0] = 2
    /\ regimes.kmeans.regime_mapping[2] = 0
    /\ regimes.current_regime = 2
    /\ rolling_vol[1] > rolling_vol[2]

\* the sum of a row of transition_probs as np.sum gives it, left to right
RECURSIVE ProbRowSum(_, _)
ProbRowSum(row, j) == IF j < 0 THEN F(0) ELSE Call2(FAdd, ProbRowSum(row, j - 1), row[j])

\* the number of positions t with regime i at t and regime j at t + 1
PairsOf(series, i, j) ==
    Cardinality({t \in 1..(Len(series) - 1) : series[t] = i /\ series[t + 1] = j})

\* what C18 says of the counts and of the entries of transition_probs
TransitionCountsAsStated ==
    LET Regimes == 0..(n_clusters - 1)
    IN  /\ \A i, j \in Regimes : regimes.transitions[i][j] = PairsOf(regime_series, i, j)
        /\ RowSum([i \in Regimes |-> RowSum(regimes.transitions[i], n_clusters - 1)],
                  n_clusters - 1) = Len(regime_series) - 1
        /\ \A i, j \in Regimes :
               /\ FLe(F(0), regimes.transition_probs[i][j])
               /\ FLe(regimes.transition_probs[i][j], F(1))
        /\ \A i \in Regimes :
               RowSum(regimes.transitions[i], n_clusters - 1) = 0
                   => \A j \in Regimes : FEq(regimes.transition_probs[i][j], F(0))

\* C18 (as stated): transitions[i][j] is the number of positions t with regime
\* i at t and regime j at t + 1, so the entries sum to the number of classified
\* observations minus 1; every entry of transition_probs is in [0, 1], every
\* row of a regime with at least one outgoing transition sums to 1 and every
\* row of a regime with none is all zeros (never NaN).
C18_TransitionRowsSumToOne ==
    regimes.called =>
        /\ TransitionCountsAsStated
        /\ \A i \in 0..(n_clusters - 1) :
               RowSum(regimes.transitions[i], n_clusters - 1) > 0
                   => FEq(ProbRowSum(regimes.transition_probs[i], n_clusters - 1), F(1))

\* C18 (amended): the same, but the row of a regime with at least one outgoing
\* transition sums to 1 up to the rounding of the divisions and of the sum:
\* within n_clusters * 2^-MantBits of 1, and exactly 1 when the regime has a
\* single successor.
C18_TransitionRowsSumToOneUpToRounding ==
    regimes.called =>
        /\ TransitionCountsAsStated
        /\ \A i \in 0..(n_clusters - 1) :
               RowSum(regimes.transitions[i], n_clusters - 1) > 0 =>
                   LET total == ProbRowSum(regimes.transition_probs[i], n_clusters - 1)
                   IN  /\ ~IsNaN(total)
                       /\ Abs(total[1] - total[2]) * Pow2(MantBits) <= n_clusters * total[2]
                       /\ (\E j \in 0..(n_clusters - 1) :
                              regimes.transitions[i][j] = RowSum(regimes.transitions[i], n_clusters - 1))
                              => FEq(total, F(1))

\* C18 witness: three regimes, one never left (its row is all zeros), one left
\* for two different regimes, with probabilities that are not whole
C18_Witness ==
    /\ regimes.called
    /\ n_clusters = 3
    /\ \E i \in 0..2 : RowSum(regimes.transitions[i], 2) = 0
    /\ \E i, j, k \in 0..2 :
           /\ j # k
           /\ regimes.transitions[i][j] = 2
           /\ regimes.transitions[i][k] = 1
           /\ FLt(F(0), regimes.transition_probs[i][k])
           /\ FLt(regimes.transition_probs[i][k], regimes.transition_probs[i][j])
           /\ FEq(ProbRowSum(regimes.transition_probs[i], 2), F(1))

\* C15: for every n_clusters in 2 .. 5 and every current regime in
\* 0 .. n_clusters - 1, the executive summary of the regime tab gives the
\* current regime an icon, a colour and a name and renders without failing.
C15_RegimeTabRendersForEveryRegime ==
    tab # NoTab =>
        /\ tab.rendered = "yes"
        /\ tab.current_regime_name = regimes.regime_names[regimes.current_regime]
        /\ tab.regime_icon # ""
        /\ tab.regime_color # ""

\* the summary renders when the current regime is one of the first three, which
\* is every regime when n_clusters is 2 or 3
C15_RegimeTabRendersUpToThreeRegimes ==
    (tab # NoTab /\ regimes.current_regime <= 2) =>
        /\ tab.rendered = "yes"
        /\ tab.current_regime_name = regimes.regime_names[regimes.current_regime]


\* C16: once load_data has returned, the frame df holds the loaded dataset
\* at every later step of the run, and so does its copy full_df: the date
\* filter, the period selector and the mode 'Cumule (%)' write into the copies
\* filtered_df and vl_plot_df only.  The performances computed from full_df
\* are therefore those of the loaded dataset, whatever the date range of the
\* sidebar, the period and the display mode of this run or of the runs before.
C16_LoadedDatasetIsReadOnly ==
    /\ frames[CachedData] = loaded
    /\ vl.df # 0 => frames[vl.df] = loaded
    /\ vl.full_df # 0 => frames[vl.full_df] = loaded
    /\ vl.rolling_data.computed =>
           vl.rolling_data.perf = calculate_rolling_performance(loaded)

\* a run that filtered rows away by date and rewrote the chart's frame in
\* the mode 'Cumule (%)' over a shorter period, after the performances
C16_Witness ==
    /\ vl.pc = "done"
    /\ vl.vl_mode = "Cumule (%)"
    /\ vl.rolling_data.computed
    /\ Len(frames[vl.filtered_df]) < Len(loaded)
    /\ Len(frames[vl.vl_plot_df]) < Len(loaded)
    /\ \E i \in DOMAIN frames[vl.vl_plot_df] :
           frames[vl.vl_plot_df][i].FCP # SelectSeq(loaded, LAMBDA r : r.Date = frames[vl.vl_plot_df][i].Date)[1].FCP


\* C17: no key written by the Valeurs Liquidatives page is a key written by
\* the Actifs Nets page, and so whatever is done on one page - select, save,
\* load, delete, reset, or just opening it - the selection and the saved
\* selections of the other page stay as they were, and an event on a page
\* changes no key of the other page at all.
OwnSelections(keys) == Restricted(session_state, {keys.selected, keys.saved})
C17_PagesWriteDisjointKeys ==
    [][/\ VlWrittenKeys \cap AnWrittenKeys = {}
       /\ page' = VlPage => OwnSelections(AnKeys)' = OwnSelections(AnKeys)
       /\ page' = AnPage => OwnSelections(VlKeys)' = OwnSelections(VlKeys)
       /\ page' = page /\ page = VlPage =>
              Restricted(session_state, AnWrittenKeys)' = Restricted(session_state, AnWrittenKeys)
       /\ page' = page /\ page = AnPage =>
              Restricted(session_state, VlWrittenKeys)' = Restricted(session_state, VlWrittenKeys)
      ]_vars

\* both pages hold a selection saved under the same name, the two differ, and
\* the Valeurs Liquidatives page has a selection of its own
C17_Witness ==
    /\ Has(session_state, VlKeys.saved) /\ Has(session_state, AnKeys.saved)
    /\ \E name \in Names :
           /\ name \in DOMAIN session_state[VlKeys.saved]
           /\ name \in DOMAIN session_state[AnKeys.saved]
           /\ session_state[VlKeys.saved][name] # session_state[AnKeys.saved][name]
    /\ Has(session_state, AnKeys.selected)
    /\ session_state[VlKeys.selected] # {}
====
